---------------------------- MODULE Spec2Model ----------------------------
(***************************************************************************)
(* Decision-Driven EDA service (compute_decision_eda_stats) of the         *)
(* Data4Viz backend, as a state machine over one call of the function.     *)
(*                                                                         *)
(* Conventions                                                             *)
(*   - a string is a tuple of one-character strings: <<"i","d">> is "id"   *)
(*   - a cell is a record [k, v, s]: k = "num" (number v), k = "na"        *)
(*     (missing / NaN) or k = "str" (string s)                             *)
(*   - a column is [name, cells]; the data frame df is a tuple of columns  *)
(*   - correlations are integers in units of 1e-4 (round(x, 4) * 10^4),    *)
(*     percentages and impact scores integers in units of 1e-2             *)
(*     (round(x, 2) * 100)                                                 *)
(***************************************************************************)
EXTENDS Integers, Sequences, FiniteSets, TLC

\* ------------------------------------------------------------------ bounds

\* Largest row count of the target-validation datasets.
MaxRows == 10
\* Largest row count up to which the target draws from the full cell pool.
SmallRows == 3
\* Row count of the column-exclusion datasets.
ExclRows == 10
\* Largest number of non-target columns of the column-exclusion datasets.
MaxOtherCols == 2
\* Row count of the ranking datasets (a correlation needs 10 paired rows).
RankRows == 10
\* Largest number of numeric / of categorical columns of the ranking datasets.
MaxNumeric == 4
MaxCategorical == 3
\* Number of numeric columns of the wide datasets: one more than the ten
\* entries all_correlations can hold.
WideCols == 11
\* Largest length of each candidate list handed to Step 5 on its own.
MaxCandidates == 2
\* Requests the endpoint answers one after the other.
MaxRequests == 2
\* Rows of the frames around the threshold of 10 paired rows.
PairRows == 11
\* Rows of the frames whose last row has no target value.
TwinRows == 10
\* Rows of the frames whose target values spread unevenly.
OutlierRows == 6
\* Rows of the frames whose categories are few.
SegmentRows == 10
\* Rows of the frames whose target values have either sign.
ImpactRows == 10
\* Rows of the frames whose column mixes kinds of cells.
TypeRows == 10
\* Insight snapshots saved in one workspace.
MaxSaves == 3

\* --------------------------------------------------------------- characters

\* The characters of the model in code-point order (what Python's string
\* comparison uses): space, '-', digits, upper case, '_', lower case.
Chars ==
  << " ", "-", "0", "1", "2", "3", "4", "5", "6", "7", "8", "9",
     "A", "B", "C", "D", "E", "F", "G", "H", "I", "J", "K", "L", "M",
     "N", "O", "P", "Q", "R", "S", "T", "U", "V", "W", "X", "Y", "Z", "_",
     "a", "b", "c", "d", "e", "f", "g", "h", "i", "j", "k", "l", "m",
     "n", "o", "p", "q", "r", "s", "t", "u", "v", "w", "x", "y", "z" >>

Digits == << "0", "1", "2", "3", "4", "5", "6", "7", "8", "9" >>

UpperCase ==
  << "A", "B", "C", "D", "E", "F", "G", "H", "I", "J", "K", "L", "M",
     "N", "O", "P", "Q", "R", "S", "T", "U", "V", "W", "X", "Y", "Z" >>

LowerCase ==
  << "a", "b", "c", "d", "e", "f", "g", "h", "i", "j", "k", "l", "m",
     "n", "o", "p", "q", "r", "s", "t", "u", "v", "w", "x", "y", "z" >>

Range(f) == { f[i] : i \in DOMAIN f }

\* Position of a character in code-point order.
Ord(c) == CHOOSE i \in DOMAIN Chars : Chars[i] = c

IsDigit(c) == c \in Range(Digits)

DigitVal(c) == (CHOOSE i \in DOMAIN Digits : Digits[i] = c) - 1

\* str.lower() on one character.
LowerChar(c) ==
  IF c \in Range(UpperCase)
    THEN LowerCase[CHOOSE i \in DOMAIN UpperCase : UpperCase[i] = c]
    ELSE c

\* str.lower()
Lower(s) == [ i \in DOMAIN s |-> LowerChar(s[i]) ]

\* Python's `pat in s` on strings.
Contains(pat, s) ==
  \E i \in 0..(Len(s) - Len(pat)) : SubSeq(s, i + 1, i + Len(pat)) = pat

\* Python's s < t on strings: lexicographic by code point.
RECURSIVE StrLess(_, _)
StrLess(s, t) ==
  IF Len(t) = 0 THEN FALSE
  ELSE IF Len(s) = 0 THEN TRUE
  ELSE IF s[1] # t[1] THEN Ord(s[1]) < Ord(t[1])
  ELSE StrLess(Tail(s), Tail(t))

\* str.strip(): leading and trailing whitespace removed.
RECURSIVE Strip(_)
Strip(s) ==
  IF Len(s) = 0 THEN s
  ELSE IF s[1] = " " THEN Strip(Tail(s))
  ELSE IF s[Len(s)] = " " THEN Strip(SubSeq(s, 1, Len(s) - 1))
  ELSE s

\* Value of a non-empty string of digits.
RECURSIVE DigitsVal(_)
DigitsVal(s) ==
  IF Len(s) = 0 THEN 0
  ELSE DigitsVal(SubSeq(s, 1, Len(s) - 1)) * 10 + DigitVal(s[Len(s)])

\* str(v) of a non-negative integer.
RECURSIVE NatStr(_)
NatStr(v) ==
  IF v < 10 THEN << Digits[v + 1] >>
  ELSE NatStr(v \div 10) \o << Digits[(v % 10) + 1] >>

\* -------------------------------------------------------------------- cells

Num(v) == [ k |-> "num", v |-> v, s |-> << >> ]
NA == [ k |-> "na", v |-> 0, s |-> << >> ]
Str(s) == [ k |-> "str", v |-> 0, s |-> s ]

IsNum(c) == c.k = "num"

\* Whether a string is a number pd.to_numeric parses: an optional '-' and
\* digits (the model's numbers are integers).
IsNumeric(s) ==
  LET body == IF Len(s) > 0 /\ s[1] = "-" THEN Tail(s) ELSE s
  IN  Len(body) > 0 /\ \A i \in DOMAIN body : IsDigit(body[i])

ParseNum(s) ==
  IF s[1] = "-" THEN 0 - DigitsVal(Tail(s)) ELSE DigitsVal(s)

\* pd.to_numeric(..., errors="coerce") on one cell; the parser skips the
\* white space around a number.
ToNumeric(c) ==
  IF c.k = "num" THEN c
  ELSE IF c.k = "str" /\ IsNumeric(Strip(c.s)) THEN Num(ParseNum(Strip(c.s)))
  ELSE NA

\* Series.astype(str) on one cell of an object column.
AsStr(c) ==
  IF c.k = "str" THEN c.s
  ELSE IF c.k = "na" THEN << "n", "a", "n" >>
  ELSE IF c.v < 0 THEN << "-" >> \o NatStr(0 - c.v)
  ELSE NatStr(c.v)

\* The tokens line 78 replaces by pd.NA.
Placeholders ==
  { << >>, << "n", "a", "n" >>, << "N", "o", "n", "e" >>, << "n", "u", "l", "l" >> }

\* series.dtype == 'object': the column holds a string.
IsObject(cells) == \E i \in DOMAIN cells : cells[i].k = "str"

\* Line 78 on one cell: astype(str).str.strip().replace([...], pd.NA)
CleanCell(c) ==
  LET t == Strip(AsStr(c))
  IN  IF t \in Placeholders THEN NA ELSE Str(t)

\* Lines 75-81: the target column cleaned (object dtype only) and coerced.
Coerce(cells) ==
  IF IsObject(cells)
    THEN [ i \in DOMAIN cells |-> ToNumeric(CleanCell(cells[i])) ]
    ELSE [ i \in DOMAIN cells |-> ToNumeric(cells[i]) ]

\* coerced.notna().sum()
ValidCount(coerced) == Cardinality({ i \in DOMAIN coerced : IsNum(coerced[i]) })

\* FailsValidation with the threshold compared by <= : exactly 90 % fails.
FailsValidation_AtMost(coerced) ==
  LET valid_count == ValidCount(coerced)
      total_count == Len(coerced)
  IN  \/ valid_count = 0
      \/ valid_count * 10 <= total_count * 9

\* Lines 85-89: valid_count == 0 or valid_count / total_count < 0.9
\* (valid_ratio is 0.0 for an empty column).
FailsValidation(coerced) ==
  LET valid_count == ValidCount(coerced)
      total_count == Len(coerced)
  IN  \/ valid_count = 0
      \/ valid_count * 10 < total_count * 9


\* -------------------------------------------------------------------- state

VARIABLES
  df,                \* the data frame load_dataset returns: a tuple of columns
  decision_metric,   \* the requested target column name
  pearson,           \* pearson[i]: what Series.corr returns for column i
                     \* against the target (units of 1e-4) when it is defined
  pc,                \* position in compute_decision_eda_stats
  error,             \* the exception raised, NoError while none
  coerced,           \* the coerced target series
  valid_mask,        \* decision_series.notna(), per row
  decision_valid,    \* the target values of the valid rows
  total_rows,
  valid_rows,
  missing_pct,
  excluded_columns,
  correlations,
  segment_impacts,
  outlier_count,
  outlier_pct,
  deduplicated_factors,
  top_factors,
  summary,           \* << >> until the function returns, then << the dict >>
  store,             \* the dataset file in the workspace and what it holds
  response,          \* << >> until the endpoint answers, then << the answer >>
  history,           \* the requests answered so far, oldest first
  insight_files,     \* the files of workspaces/<workspace>/insights
  saved,             \* the save_insight_snapshot calls made, oldest first
  parked             \* the local variables of a call that is not running

vars ==
  << df, decision_metric, pearson, pc, error, coerced, valid_mask,
     decision_valid, total_rows, valid_rows, missing_pct, excluded_columns,
     correlations, segment_impacts, outlier_count, outlier_pct,
     deduplicated_factors, top_factors, summary, store, response, history,
     insight_files, saved, parked >>

ColumnNames == { df[i].name : i \in DOMAIN df }

\* len(df)
NumRows == IF Len(df) = 0 THEN 0 ELSE Len(df[1].cells)

TargetIdx == CHOOSE i \in DOMAIN df : df[i].name = decision_metric

\* An exception: its class and the text of str(e), character by character.
NoError == [ type |-> "", message |-> << >> ]

\* The local variables of a call that has not started.
IdleLocals ==
  [ df |-> << >>, decision_metric |-> << >>, pearson |-> << >>, pc |-> "idle",
    error |-> NoError, coerced |-> << >>, valid_mask |-> << >>,
    decision_valid |-> << >>, total_rows |-> 0, valid_rows |-> 0,
    missing_pct |-> 0, excluded_columns |-> << >>, correlations |-> << >>,
    segment_impacts |-> << >>, outlier_count |-> 0, outlier_pct |-> 0,
    deduplicated_factors |-> << >>, top_factors |-> << >>, summary |-> << >>,
    response |-> << >> ]

ValueError(message) == [ type |-> "ValueError", message |-> message ]

\* Lines 90-93: "The selected metric contains non-numeric values and cannot be analyzed.
\* Please clean or convert this column to numeric values."
InvalidMetricMessage ==
  << "T", "h", "e", " ", "s", "e", "l", "e", "c", "t", "e", "d", " ", "m",
     "e", "t", "r", "i", "c", " ", "c", "o", "n", "t", "a", "i", "n", "s",
     " ", "n", "o", "n", "-", "n", "u", "m", "e", "r", "i", "c", " ", "v",
     "a", "l", "u", "e", "s", " ", "a", "n", "d", " ", "c", "a", "n", "n",
     "o", "t", " ", "b", "e", " ", "a", "n", "a", "l", "y", "z", "e", "d",
     ".", " ", "P", "l", "e", "a", "s", "e", " ", "c", "l", "e", "a", "n",
     " ", "o", "r", " ", "c", "o", "n", "v", "e", "r", "t", " ", "t", "h",
     "i", "s", " ", "c", "o", "l", "u", "m", "n", " ", "t", "o", " ", "n",
     "u", "m", "e", "r", "i", "c", " ", "v", "a", "l", "u", "e", "s", "." >>

InvalidMetricError == ValueError(InvalidMetricMessage)

\* Line 71: f"Column '{decision_metric}' not found in dataset"
ColumnNotFoundError ==
  ValueError(<< "C", "o", "l", "u", "m", "n", " ", "'" >> \o decision_metric
             \o
  << "'", " ", "n", "o", "t", " ", "f", "o", "u", "n", "d", " ", "i", "n",
     " ", "d", "a", "t", "a", "s", "e", "t" >>)

\* Nearest integer to p / q (p >= 0, q > 0), a tie going to the even
\* neighbour: round() on the quotient.
RoundDiv(p, q) ==
  LET f == p \div q
      r == p % q
  IN  IF 2 * r < q THEN f
      ELSE IF 2 * r > q THEN f + 1
      ELSE IF f % 2 = 0 THEN f ELSE f + 1

\* The elements of s at the positions where mask holds, in order.
RECURSIVE Select(_, _)
Select(s, mask) ==
  IF Len(s) = 0 THEN << >>
  ELSE IF mask[1] THEN << s[1] >> \o Select(Tail(s), Tail(mask))
  ELSE Select(Tail(s), Tail(mask))

\* The state before the call: nothing computed yet.
Fresh ==
  /\ pc = "start"
  /\ error = NoError
  /\ coerced = << >>
  /\ valid_mask = << >>
  /\ decision_valid = << >>
  /\ total_rows = 0
  /\ valid_rows = 0
  /\ missing_pct = 0
  /\ excluded_columns = << >>
  /\ correlations = << >>
  /\ segment_impacts = << >>
  /\ outlier_count = 0
  /\ outlier_pct = 0
  /\ deduplicated_factors = << >>
  /\ top_factors = << >>
  /\ summary = << >>
  /\ store = [ file |-> "csv", frame |-> df, pearson |-> pearson ]
  /\ response = << >>
  /\ history = << >>
  /\ insight_files = {}
  /\ saved = << >>
  /\ parked = IdleLocals

\* ------------------------------------------------------------------ actions

\* Lines 66-71: the data frame is loaded; an absent target column raises.
CheckColumn ==
  /\ pc = "start"
  /\ IF decision_metric \notin ColumnNames
       THEN /\ pc' = "error"
            /\ error' = ColumnNotFoundError
       ELSE /\ pc' = "coerce"
            /\ error' = error
  /\ UNCHANGED << df, decision_metric, pearson, coerced, valid_mask,
                  decision_valid, total_rows, valid_rows, missing_pct,
                  excluded_columns, correlations, segment_impacts,
                  outlier_count, outlier_pct, deduplicated_factors,
                  top_factors, summary >>
  /\ UNCHANGED << store, response, history >>
  /\ UNCHANGED << insight_files, saved, parked >>

\* CoerceAndValidate without the raise of lines 89-93: the call goes on
\* with whatever coerced.
CoerceAndValidate_NoRaise ==
  /\ pc = "coerce"
  /\ coerced' = Coerce(df[TargetIdx].cells)
  /\ pc' = "prepare"
  /\ UNCHANGED << df, decision_metric, pearson, error, valid_mask,
                  decision_valid, total_rows, valid_rows, missing_pct,
                  excluded_columns, correlations, segment_impacts,
                  outlier_count, outlier_pct, deduplicated_factors,
                  top_factors, summary >>
  /\ UNCHANGED << store, response, history >>
  /\ UNCHANGED << insight_files, saved, parked >>

\* CoerceAndValidate writing the coerced series into the loaded frame
\* (df[decision_metric] = coerced) instead of working on the copy of line 75.
CoerceAndValidate_InPlace ==
  /\ pc = "coerce"
  /\ coerced' = Coerce(df[TargetIdx].cells)
  /\ df' = [ df EXCEPT ![TargetIdx].cells = coerced' ]
  /\ IF FailsValidation(coerced')
       THEN /\ pc' = "error"
            /\ error' = InvalidMetricError
       ELSE /\ pc' = "prepare"
            /\ error' = error
  /\ UNCHANGED << decision_metric, pearson, valid_mask,
                  decision_valid, total_rows, valid_rows, missing_pct,
                  excluded_columns, correlations, segment_impacts,
                  outlier_count, outlier_pct, deduplicated_factors,
                  top_factors, summary, store, response, history >>
  /\ UNCHANGED << insight_files, saved, parked >>

\* Lines 73-93: the target is cleaned, coerced and validated.
CoerceAndValidate ==
  /\ pc = "coerce"
  /\ coerced' = Coerce(df[TargetIdx].cells)
  /\ IF FailsValidation(coerced')
       THEN /\ pc' = "error"
            /\ error' = InvalidMetricError
       ELSE /\ pc' = "prepare"
            /\ error' = error
  /\ UNCHANGED << df, decision_metric, pearson, valid_mask,
                  decision_valid, total_rows, valid_rows, missing_pct,
                  excluded_columns, correlations, segment_impacts,
                  outlier_count, outlier_pct, deduplicated_factors,
                  top_factors, summary >>
  /\ UNCHANGED << store, response, history >>
  /\ UNCHANGED << insight_files, saved, parked >>

\* PrepareValid with valid_rows = len(df) in place of len(df_valid) on
\* line 111.
PrepareValid_CountAll ==
  /\ pc = "prepare"
  /\ valid_mask' = [ i \in DOMAIN coerced |-> IsNum(coerced[i]) ]
  /\ decision_valid' =
       LET kept == Select(coerced, valid_mask')
       IN  [ i \in DOMAIN kept |-> kept[i].v ]
  /\ total_rows' = NumRows
  /\ valid_rows' = NumRows
  /\ missing_pct' =
       IF total_rows' > 0
         THEN RoundDiv((total_rows' - valid_rows') * 10000, total_rows')
         ELSE 0
  /\ pc' = "exclude"
  /\ UNCHANGED << df, decision_metric, pearson, error, coerced,
                  excluded_columns, correlations, segment_impacts,
                  outlier_count, outlier_pct, deduplicated_factors,
                  top_factors, summary >>
  /\ UNCHANGED << store, response, history >>
  /\ UNCHANGED << insight_files, saved, parked >>

\* Lines 95-112: the rows with a missing target are dropped; row counts.
\* (The dtype re-check of lines 104-108 cannot fail: coerced is numeric.)
PrepareValid ==
  /\ pc = "prepare"
  /\ valid_mask' = [ i \in DOMAIN coerced |-> IsNum(coerced[i]) ]
  /\ decision_valid' =
       LET kept == Select(coerced, valid_mask')
       IN  [ i \in DOMAIN kept |-> kept[i].v ]
  /\ total_rows' = NumRows
  /\ valid_rows' = Len(decision_valid')
  /\ missing_pct' =
       IF total_rows' > 0
         THEN RoundDiv((total_rows' - valid_rows') * 10000, total_rows')
         ELSE 0
  /\ pc' = "exclude"
  /\ UNCHANGED << df, decision_metric, pearson, error, coerced,
                  excluded_columns, correlations, segment_impacts,
                  outlier_count, outlier_pct, deduplicated_factors,
                  top_factors, summary >>
  /\ UNCHANGED << store, response, history >>
  /\ UNCHANGED << insight_files, saved, parked >>

\* ------------------------------------------------------ column type inference

\* Whether pd.to_datetime parses the string: the model's dates are ISO dates
\* with a month 01..12 and a day 01..31, dashed (YYYY-MM-DD) or compact
\* (YYYYMMDD).
IsDate(s) ==
  \/ /\ Len(s) = 10
     /\ s[5] = "-" /\ s[8] = "-"
     /\ \A i \in {1, 2, 3, 4, 6, 7, 9, 10} : IsDigit(s[i])
     /\ DigitsVal(SubSeq(s, 6, 7)) \in 1..12
     /\ DigitsVal(SubSeq(s, 9, 10)) \in 1..31
  \/ /\ Len(s) = 8
     /\ \A i \in 1..8 : IsDigit(s[i])
     /\ DigitsVal(SubSeq(s, 5, 6)) \in 1..12
     /\ DigitsVal(SubSeq(s, 7, 8)) \in 1..31

YearOf(s) == DigitsVal(SubSeq(s, 1, 4))

\* InferColumnType with the date rule (lines 34-39) tried before the
\* numeric-like rule (lines 28-32).
InferColumnType_DateFirst(cells) ==
  LET n == Len(cells)
      numeric_like == { i \in DOMAIN cells : IsNum(ToNumeric(cells[i])) }
      parsed == { i \in DOMAIN cells : cells[i].k = "str" /\ IsDate(cells[i].s) }
  IN  IF ~IsObject(cells) THEN "numeric"
      ELSE IF /\ n > 0
              /\ Cardinality(parsed) * 10 > 7 * n
              /\ \A i \in parsed : YearOf(cells[i].s) \in 1900..2100
        THEN "datetime"
      ELSE IF n > 0 /\ Cardinality(numeric_like) * 10 > 8 * n THEN "numeric"
      ELSE "categorical"

\* Lines 16-41. A column without strings has a numeric dtype; no column read
\* from a CSV file has a datetime dtype, so rule 2 never applies.
InferColumnType(cells) ==
  LET n == Len(cells)
      numeric_like == { i \in DOMAIN cells : IsNum(ToNumeric(cells[i])) }
      parsed == { i \in DOMAIN cells : cells[i].k = "str" /\ IsDate(cells[i].s) }
  IN  IF ~IsObject(cells) THEN "numeric"
      ELSE IF n > 0 /\ Cardinality(numeric_like) * 10 > 8 * n THEN "numeric"
      ELSE IF /\ n > 0
              /\ Cardinality(parsed) * 10 > 7 * n
              /\ \A i \in parsed : YearOf(cells[i].s) \in 1900..2100
        THEN "datetime"
      ELSE "categorical"

\* ----------------------------------------------------------- column exclusion

\* Line 116.
excluded_patterns ==
  << << "i", "d" >>,
     << "u", "r", "l" >>,
     << "d", "e", "s", "c", "r", "i", "p", "t", "i", "o", "n" >>,
     << "t", "i", "t", "l", "e" >>,
     << "s", "u", "m", "m", "a", "r", "y" >>,
     << "n", "a", "m", "e" >>,
     << "e", "m", "a", "i", "l" >>,
     << "a", "d", "d", "r", "e", "s", "s" >> >>

\* df[col].nunique(dropna=True)
UniqueCount(cells) ==
  Cardinality({ cells[i] : i \in { j \in DOMAIN cells : cells[j].k # "na" } })

\* df[col].dropna()
DropNA(cells) == Select(cells, [ i \in DOMAIN cells |-> cells[i].k # "na" ])

\* s.head(n)
HeadN(s, n) == SubSeq(s, 1, IF Len(s) < n THEN Len(s) ELSE n)

RECURSIVE SumLen(_)
SumLen(cells) ==
  IF Len(cells) = 0 THEN 0 ELSE Len(AsStr(cells[1])) + SumLen(Tail(cells))

\* Lines 148-151: the mean string length of up to 100 non-null values
\* exceeds 50.
LongText(cells) ==
  LET sample_values == HeadN(DropNA(cells), 100)
  IN  /\ Len(sample_values) > 0
      /\ SumLen(sample_values) > 50 * Len(sample_values)

\* PatternReason with the identifier sub-rule tried before the URL and
\* free-text sub-rules.
PatternReason_IdFirst(col_lower, unique_count, rows) ==
  IF Contains(<< "i", "d" >>, col_lower) /\ unique_count * 100 > 50 * rows
    THEN "Identifier column"
  ELSE IF Contains(<< "u", "r", "l" >>, col_lower) \/ Contains(<< "l", "i", "n", "k" >>, col_lower)
    THEN "URL column"
  ELSE IF \/ Contains(<< "d", "e", "s", "c", "r", "i", "p", "t", "i", "o", "n" >>, col_lower)
          \/ Contains(<< "t", "e", "x", "t" >>, col_lower)
          \/ Contains(<< "c", "o", "m", "m", "e", "n", "t" >>, col_lower)
    THEN "Free-text column"
  ELSE "Text/identifier pattern"

\* Lines 138-145: the reason of a column excluded for its name.
PatternReason(col_lower, unique_count, rows) ==
  IF Contains(<< "u", "r", "l" >>, col_lower) \/ Contains(<< "l", "i", "n", "k" >>, col_lower)
    THEN "URL column"
  ELSE IF \/ Contains(<< "d", "e", "s", "c", "r", "i", "p", "t", "i", "o", "n" >>, col_lower)
          \/ Contains(<< "t", "e", "x", "t" >>, col_lower)
          \/ Contains(<< "c", "o", "m", "m", "e", "n", "t" >>, col_lower)
    THEN "Free-text column"
  ELSE IF Contains(<< "i", "d" >>, col_lower) /\ unique_count * 100 > 50 * rows
    THEN "Identifier column"
  ELSE "Text/identifier pattern"

\* ExclusionReason with the name check made before the uniqueness check.
ExclusionReason_NameFirst(col, rows) ==
  LET col_type == InferColumnType(col.cells)
      unique_count == UniqueCount(col.cells)
      col_lower == Lower(col.name)
  IN  IF \E i \in DOMAIN excluded_patterns : Contains(excluded_patterns[i], col_lower)
        THEN (IF Contains(<< "u", "r", "l" >>, col_lower) \/ Contains(<< "l", "i", "n", "k" >>, col_lower)
                THEN "URL column"
              ELSE IF \/ Contains(<< "d", "e", "s", "c", "r", "i", "p", "t", "i", "o", "n" >>, col_lower)
                      \/ Contains(<< "t", "e", "x", "t" >>, col_lower)
                      \/ Contains(<< "c", "o", "m", "m", "e", "n", "t" >>, col_lower)
                THEN "Free-text column"
              ELSE IF Contains(<< "i", "d" >>, col_lower) /\ unique_count * 100 > 50 * rows
                THEN "Identifier column"
              ELSE "Text/identifier pattern")
      ELSE IF rows > 0 /\ unique_count * 100 > 80 * rows
        THEN "High uniqueness"
      ELSE IF col_type = "categorical" /\ LongText(col.cells)
        THEN "Free-text column"
      ELSE ""

\* Lines 122-153 for one column: the exclusion reason, "" when the column
\* is kept. unique_pct = unique_count / total_rows * 100 (0 without rows), so
\* unique_pct > p is unique_count * 100 > p * total_rows.
ExclusionReason(col, rows) ==
  LET col_type == InferColumnType(col.cells)
      unique_count == UniqueCount(col.cells)
      col_lower == Lower(col.name)
  IN  IF rows > 0 /\ unique_count * 100 > 80 * rows
        THEN "High uniqueness"
      ELSE IF \E i \in DOMAIN excluded_patterns : Contains(excluded_patterns[i], col_lower)
        THEN PatternReason(col_lower, IF rows > 0 THEN unique_count ELSE 0, rows)
      ELSE IF col_type = "categorical" /\ LongText(col.cells)
        THEN "Free-text column"
      ELSE ""

RECURSIVE ExcludedFrom(_, _, _, _)

\* The loop of lines 118-159 without the skip of the target (lines 119-120).
ExcludedFrom_WithTarget(frame, metric, rows, i) ==
  IF i > Len(frame) THEN << >>
  ELSE LET reason == ExclusionReason(frame[i], rows)
       IN  IF reason # ""
             THEN << [ column |-> frame[i].name, reason |-> reason ] >>
                    \o ExcludedFrom(frame, metric, rows, i + 1)
             ELSE ExcludedFrom(frame, metric, rows, i + 1)

\* The loop of lines 118-159 over the columns in an order that is not the
\* same in every call: backwards in every second one.
ExcludedFrom_Unordered(frame, metric, rows, i) ==
  IF i > Len(frame) THEN << >>
  ELSE LET reason == ExclusionReason(frame[i], rows)
           this == IF frame[i].name # metric /\ reason # ""
                     THEN << [ column |-> frame[i].name, reason |-> reason ] >>
                     ELSE << >>
           rest == ExcludedFrom(frame, metric, rows, i + 1)
       IN  IF Len(history) % 2 = 0 THEN this \o rest ELSE rest \o this

\* Lines 118-159: the loop over df.columns, from column i on.
ExcludedFrom(frame, metric, rows, i) ==
  IF i > Len(frame) THEN << >>
  ELSE IF frame[i].name = metric THEN ExcludedFrom(frame, metric, rows, i + 1)
  ELSE LET reason == ExclusionReason(frame[i], rows)
       IN  IF reason # ""
             THEN << [ column |-> frame[i].name, reason |-> reason ] >>
                    \o ExcludedFrom(frame, metric, rows, i + 1)
             ELSE ExcludedFrom(frame, metric, rows, i + 1)

\* Lines 114-159.
ExcludeColumns ==
  /\ pc = "exclude"
  /\ excluded_columns' = ExcludedFrom(df, decision_metric, total_rows, 1)
  /\ pc' = "correlate"
  /\ UNCHANGED << df, decision_metric, pearson, error, coerced, valid_mask,
                  decision_valid, total_rows, valid_rows, missing_pct,
                  correlations, segment_impacts, outlier_count, outlier_pct,
                  deduplicated_factors, top_factors, summary >>
  /\ UNCHANGED << store, response, history >>
  /\ UNCHANGED << insight_files, saved, parked >>

IsExcluded(name) == \E i \in DOMAIN excluded_columns : excluded_columns[i].column = name

\* ------------------------------------------------------ numeric correlations

Abs(x) == IF x < 0 THEN 0 - x ELSE x

\* df_valid[col]: the cells of the rows whose target is valid.
ValidCells(cells) == Select(cells, valid_mask)

\* CorrelationOf with a threshold of 9 paired rows instead of 10.
CorrelationOf_NinePairs(i) ==
  LET col_series == [ r \in DOMAIN ValidCells(df[i].cells) |->
                        ToNumeric(ValidCells(df[i].cells)[r]) ]
      valid_col_mask == [ r \in DOMAIN col_series |-> IsNum(col_series[r]) ]
      xs == Select(decision_valid, valid_col_mask)
      ys == Select(col_series, valid_col_mask)
      defined == /\ \E r \in DOMAIN xs : xs[r] # xs[1]
                 /\ \E r \in DOMAIN ys : ys[r] # ys[1]
  IN  IF Len(ys) < 9 THEN << >>
      ELSE IF ~defined THEN << >>
      ELSE << [ factor |-> df[i].name,
                correlation |-> pearson[i],
                abs_correlation |-> Abs(pearson[i]),
                type |-> "numeric" ] >>

\* Lines 176-190 for one numeric column, i its position in df: << >> when
\* the factor is dropped, else << its entry >>. Series.corr is not a number
\* when one of the two paired series is constant; otherwise it is pearson[i].
CorrelationOf(i) ==
  LET col_series == [ r \in DOMAIN ValidCells(df[i].cells) |->
                        ToNumeric(ValidCells(df[i].cells)[r]) ]
      valid_col_mask == [ r \in DOMAIN col_series |-> IsNum(col_series[r]) ]
      xs == Select(decision_valid, valid_col_mask)
      ys == Select(col_series, valid_col_mask)
      defined == /\ \E r \in DOMAIN xs : xs[r] # xs[1]
                 /\ \E r \in DOMAIN ys : ys[r] # ys[1]
  IN  IF Len(ys) < 10 THEN << >>
      ELSE IF ~defined THEN << >>
      ELSE << [ factor |-> df[i].name,
                correlation |-> pearson[i],
                abs_correlation |-> Abs(pearson[i]),
                type |-> "numeric" ] >>

RECURSIVE CorrelationsFrom(_)

\* The loop of lines 165-190 without the skip of the excluded columns
\* (lines 169-171).
CorrelationsFrom_WithExcluded(i) ==
  IF i > Len(df) THEN << >>
  ELSE IF \/ df[i].name = decision_metric
          \/ InferColumnType(df[i].cells) # "numeric"
    THEN CorrelationsFrom(i + 1)
  ELSE CorrelationOf(i) \o CorrelationsFrom(i + 1)

\* Lines 165-190: the loop over df.columns, from column i on.
CorrelationsFrom(i) ==
  IF i > Len(df) THEN << >>
  ELSE IF \/ df[i].name = decision_metric
          \/ IsExcluded(df[i].name)
          \/ InferColumnType(df[i].cells) # "numeric"
    THEN CorrelationsFrom(i + 1)
  ELSE CorrelationOf(i) \o CorrelationsFrom(i + 1)

\* Lines 161-190.
ComputeCorrelations ==
  /\ pc = "correlate"
  /\ correlations' = CorrelationsFrom(1)
  /\ pc' = "segments"
  /\ UNCHANGED << df, decision_metric, pearson, error, coerced, valid_mask,
                  decision_valid, total_rows, valid_rows, missing_pct,
                  excluded_columns, segment_impacts, outlier_count,
                  outlier_pct, deduplicated_factors, top_factors, summary >>
  /\ UNCHANGED << store, response, history >>
  /\ UNCHANGED << insight_files, saved, parked >>

\* ---------------------------------------------------------- segment impacts

RECURSIVE Sum(_)
Sum(s) == IF Len(s) = 0 THEN 0 ELSE s[1] + Sum(Tail(s))

\* round(p / q, .) for any sign of p (q > 0).
RoundQ(p, q) == IF p < 0 THEN 0 - RoundDiv(0 - p, q) ELSE RoundDiv(p, q)

\* The strings of a set in ascending order (groupby sorts its keys).
RECURSIVE SortedKeys(_)
SortedKeys(S) ==
  IF S = {} THEN << >>
  ELSE LET m == CHOOSE x \in S : \A y \in S \ {x} : StrLess(x, y)
       IN  << m >> \o SortedKeys(S \ {m})

\* Lines 208-219: df_valid.groupby(col) and the mean of the target in each
\* group, as [key, sum, cnt] in key order (the mean is sum / cnt; a missing
\* key forms no group).
Groups(cells) ==
  LET vc == ValidCells(cells)
      keys == SortedKeys({ AsStr(vc[r]) : r \in { q \in DOMAIN vc : vc[q].k # "na" } })
  IN  [ g \in DOMAIN keys |->
          LET in_group == [ r \in DOMAIN vc |-> vc[r].k # "na" /\ AsStr(vc[r]) = keys[g] ]
              group_values == Select(decision_valid, in_group)
          IN  [ key |-> keys[g], sum |-> Sum(group_values), cnt |-> Len(group_values) ] ]

\* a's mean is less than b's.
MeanLess(a, b) == a.sum * b.cnt < b.sum * a.cnt

\* Series.nlargest(n) / nsmallest(n): repeatedly the first remaining group
\* with the largest (smallest) mean.
RECURSIVE NLargest(_, _)
NLargest(gs, n) ==
  IF n = 0 \/ Len(gs) = 0 THEN << >>
  ELSE LET j == CHOOSE a \in DOMAIN gs :
                  /\ \A b \in DOMAIN gs : ~MeanLess(gs[a], gs[b])
                  /\ \A b \in 1..(a - 1) : MeanLess(gs[b], gs[a])
       IN  << gs[j] >> \o NLargest(SubSeq(gs, 1, j - 1) \o SubSeq(gs, j + 1, Len(gs)), n - 1)

RECURSIVE NSmallest(_, _)
NSmallest(gs, n) ==
  IF n = 0 \/ Len(gs) = 0 THEN << >>
  ELSE LET j == CHOOSE a \in DOMAIN gs :
                  /\ \A b \in DOMAIN gs : ~MeanLess(gs[b], gs[a])
                  /\ \A b \in 1..(a - 1) : MeanLess(gs[a], gs[b])
       IN  << gs[j] >> \o NSmallest(SubSeq(gs, 1, j - 1) \o SubSeq(gs, j + 1, Len(gs)), n - 1)

\* {str(k): round(float(v), 4)} in the order of the selection.
SegmentDict(gs) ==
  [ g \in DOMAIN gs |-> [ segment |-> gs[g].key, mean |-> RoundQ(gs[g].sum * 10000, gs[g].cnt) ] ]

\* SegmentImpactOf keeping a factor of a single group (len(...) < 1 on
\* line 221).
SegmentImpactOf_OneGroup(i) ==
  LET gs == Groups(df[i].cells)
      hi == NLargest(gs, 1)[1]
      lo == NSmallest(gs, 1)[1]
      \* mean_diff = max_mean - min_mean = diff_num / diff_den
      diff_num == hi.sum * lo.cnt - lo.sum * hi.cnt
      diff_den == hi.cnt * lo.cnt
      \* overall_mean = total / valid_rows
      total == Sum(decision_valid)
      relative_impact_pct ==
        IF total # 0
          THEN RoundDiv(diff_num * valid_rows * 10000, diff_den * Abs(total))
          ELSE RoundDiv(diff_num * 100, diff_den)
  IN  IF Len(gs) < 1 THEN << >>
      ELSE << [ factor |-> df[i].name,
                mean_difference |-> RoundDiv(diff_num * 10000, diff_den),
                relative_impact_pct |-> relative_impact_pct,
                top_segments |-> SegmentDict(NLargest(gs, 3)),
                bottom_segments |-> SegmentDict(NSmallest(gs, 3)),
                type |-> "categorical" ] >>

\* SegmentImpactOf without abs() on line 236: the relative impact takes
\* the sign of the overall mean.
SegmentImpactOf_Signed(i) ==
  LET gs == Groups(df[i].cells)
      hi == NLargest(gs, 1)[1]
      lo == NSmallest(gs, 1)[1]
      \* mean_diff = max_mean - min_mean = diff_num / diff_den
      diff_num == hi.sum * lo.cnt - lo.sum * hi.cnt
      diff_den == hi.cnt * lo.cnt
      \* overall_mean = total / valid_rows
      total == Sum(decision_valid)
      relative_impact_pct ==
        IF total # 0
          THEN RoundQ(IF total < 0 THEN 0 - diff_num * valid_rows * 10000
                                   ELSE diff_num * valid_rows * 10000,
                      diff_den * Abs(total))
          ELSE RoundDiv(diff_num * 100, diff_den)
  IN  IF Len(gs) < 2 THEN << >>
      ELSE << [ factor |-> df[i].name,
                mean_difference |-> RoundDiv(diff_num * 10000, diff_den),
                relative_impact_pct |-> relative_impact_pct,
                top_segments |-> SegmentDict(NLargest(gs, 3)),
                bottom_segments |-> SegmentDict(NSmallest(gs, 3)),
                type |-> "categorical" ] >>

\* Lines 221-251 for one categorical column: << >> when the factor is
\* dropped, else << its entry >>.
SegmentImpactOf(i) ==
  LET gs == Groups(df[i].cells)
      hi == NLargest(gs, 1)[1]
      lo == NSmallest(gs, 1)[1]
      \* mean_diff = max_mean - min_mean = diff_num / diff_den
      diff_num == hi.sum * lo.cnt - lo.sum * hi.cnt
      diff_den == hi.cnt * lo.cnt
      \* overall_mean = total / valid_rows
      total == Sum(decision_valid)
      relative_impact_pct ==
        IF total # 0
          THEN RoundDiv(diff_num * valid_rows * 10000, diff_den * Abs(total))
          ELSE RoundDiv(diff_num * 100, diff_den)
  IN  IF Len(gs) < 2 THEN << >>
      ELSE << [ factor |-> df[i].name,
                mean_difference |-> RoundDiv(diff_num * 10000, diff_den),
                relative_impact_pct |-> relative_impact_pct,
                top_segments |-> SegmentDict(NLargest(gs, 3)),
                bottom_segments |-> SegmentDict(NSmallest(gs, 3)),
                type |-> "categorical" ] >>

RECURSIVE SegmentImpactsFrom(_)

\* The loop of lines 195-261 without the test of line 204: a column of any
\* type is grouped.
SegmentImpactsFrom_AnyType(i) ==
  IF i > Len(df) THEN << >>
  ELSE IF \/ df[i].name = decision_metric
          \/ IsExcluded(df[i].name)
    THEN SegmentImpactsFrom(i + 1)
  ELSE SegmentImpactOf(i) \o SegmentImpactsFrom(i + 1)

\* Lines 195-251: the loop over df.columns, from column i on.
SegmentImpactsFrom(i) ==
  IF i > Len(df) THEN << >>
  ELSE IF \/ df[i].name = decision_metric
          \/ IsExcluded(df[i].name)
          \/ InferColumnType(df[i].cells) # "categorical"
    THEN SegmentImpactsFrom(i + 1)
  ELSE SegmentImpactOf(i) \o SegmentImpactsFrom(i + 1)

\* Lines 192-261. The except clause of lines 252-261 is not reached: the
\* grouped series is the coerced, numeric target.
ComputeSegments ==
  /\ pc = "segments"
  /\ segment_impacts' = SegmentImpactsFrom(1)
  /\ pc' = "outliers"
  /\ UNCHANGED << df, decision_metric, pearson, error, coerced, valid_mask,
                  decision_valid, total_rows, valid_rows, missing_pct,
                  excluded_columns, correlations, outlier_count,
                  outlier_pct, deduplicated_factors, top_factors, summary >>
  /\ UNCHANGED << store, response, history >>
  /\ UNCHANGED << insight_files, saved, parked >>

\* ------------------------------------------------------------------ outliers

\* s in ascending order.
RECURSIVE InsertSorted(_, _)
InsertSorted(x, s) ==
  IF Len(s) = 0 THEN << x >>
  ELSE IF x < s[1] THEN << x >> \o s
  ELSE << s[1] >> \o InsertSorted(x, Tail(s))

RECURSIVE SortInts(_)
SortInts(s) == IF Len(s) = 0 THEN << >> ELSE InsertSorted(s[1], SortInts(Tail(s)))

\* 4 * Series.quantile(k / 4) of a non-empty series (linear interpolation
\* between the order statistics around position k * (n - 1) / 4).
Quantile4(s, k) ==
  LET sorted == SortInts(s)
      h == k * (Len(s) - 1)
      lo == (h \div 4) + 1
      frac == h % 4
  IN  IF frac = 0 THEN 4 * sorted[lo]
      ELSE 4 * sorted[lo] + frac * (sorted[lo + 1] - sorted[lo])

\* OutlierCount with <= and >= in place of < and > on line 272.
OutlierCount_Inclusive(s) ==
  LET Q1 == Quantile4(s, 1)
      Q3 == Quantile4(s, 3)
      IQR == Q3 - Q1
      lower_bound == 2 * Q1 - 3 * IQR
      upper_bound == 2 * Q3 + 3 * IQR
  IN  Cardinality({ r \in DOMAIN s : 8 * s[r] <= lower_bound \/ 8 * s[r] >= upper_bound })

\* Lines 266-273: the values outside [Q1 - 1.5 * IQR, Q3 + 1.5 * IQR]; the
\* comparison is made on 8 times each side.
OutlierCount(s) ==
  LET Q1 == Quantile4(s, 1)
      Q3 == Quantile4(s, 3)
      IQR == Q3 - Q1
      lower_bound == 2 * Q1 - 3 * IQR
      upper_bound == 2 * Q3 + 3 * IQR
  IN  Cardinality({ r \in DOMAIN s : 8 * s[r] < lower_bound \/ 8 * s[r] > upper_bound })

\* Lines 263-284. decision_valid is numeric and not empty here, so the
\* except clause is not reached.
ComputeOutliers ==
  /\ pc = "outliers"
  /\ outlier_count' = OutlierCount(decision_valid)
  /\ outlier_pct' =
       IF valid_rows > 0 THEN RoundDiv(outlier_count' * 10000, valid_rows) ELSE 0
  /\ pc' = "rank"
  /\ UNCHANGED << df, decision_metric, pearson, error, coerced, valid_mask,
                  decision_valid, total_rows, valid_rows, missing_pct,
                  excluded_columns, correlations, segment_impacts,
                  deduplicated_factors, top_factors, summary >>
  /\ UNCHANGED << store, response, history >>
  /\ UNCHANGED << insight_files, saved, parked >>

\* ------------------------------------------------------------------- ranking

\* KeyLess on the score alone: equal scores keep the order they came in.
KeyLess_ScoreOnly(a, b) == a.score > b.score

\* The sort key (-score, name) of Python's tuple comparison: a sorts before b.
KeyLess(a, b) ==
  \/ a.score > b.score
  \/ a.score = b.score /\ StrLess(a.name, b.name)

\* list.sort / sorted on keyed entries [score, name, item]: stable, so an
\* entry goes after the entries that do not sort after it.
RECURSIVE InsertKeyed(_, _)
InsertKeyed(x, s) ==
  IF Len(s) = 0 THEN << x >>
  ELSE IF KeyLess(x, s[1]) THEN << x >> \o s
  ELSE << s[1] >> \o InsertKeyed(x, Tail(s))

RECURSIVE SortKeyed(_)
SortKeyed(s) ==
  IF Len(s) = 0 THEN << >>
  ELSE InsertKeyed(s[Len(s)], SortKeyed(SubSeq(s, 1, Len(s) - 1)))

Items(s) == [ i \in DOMAIN s |-> s[i].item ]

\* Lines 314 and 337: sort(key=lambda x: (-x["impact_score"], x["factor"]))
SortFactors(fs) ==
  Items(SortKeyed([ i \in DOMAIN fs |->
    [ score |-> fs[i].impact_score, name |-> fs[i].factor, item |-> fs[i] ] ]))

\* Lines 290-310: one candidate entry per correlation and per segment impact.
\* impact_score = round(abs_correlation * 100, 2), in units of 1e-2, is the
\* number abs_correlation is in units of 1e-4.
Candidates(corrs, segs) ==
  [ i \in DOMAIN corrs |->
      [ factor |-> corrs[i].factor,
        impact_score |-> corrs[i].abs_correlation,
        type |-> "numeric",
        correlation |-> corrs[i].correlation,
        abs_correlation |-> corrs[i].abs_correlation ] ]
  \o
  [ i \in DOMAIN segs |->
      [ factor |-> segs[i].factor,
        impact_score |-> segs[i].relative_impact_pct,
        type |-> "categorical",
        mean_difference |-> segs[i].mean_difference,
        top_segments |-> segs[i].top_segments,
        bottom_segments |-> segs[i].bottom_segments ] ]

\* list.remove(x): the first element equal to x is removed.
RECURSIVE RemoveFirst(_, _)
RemoveFirst(s, x) ==
  IF Len(s) = 0 THEN s
  ELSE IF s[1] = x THEN Tail(s)
  ELSE << s[1] >> \o RemoveFirst(Tail(s), x)

RECURSIVE DedupFrom(_, _, _, _)

\* The loop of lines 320-333 with the comparison of line 329 reversed: the
\* weaker entry of a name replaces the stronger.
DedupFrom_KeepLower(factors, i, seen, dedup) ==
  IF i > Len(factors) THEN dedup
  ELSE LET factor == factors[i]
       IN  IF \A e \in seen : e.factor # factor.factor
             THEN DedupFrom(factors, i + 1, seen \cup {factor}, Append(dedup, factor))
           ELSE LET existing == CHOOSE e \in seen : e.factor = factor.factor
                IN  IF factor.impact_score < existing.impact_score
                      THEN DedupFrom(factors, i + 1,
                                     (seen \ {existing}) \cup {factor},
                                     Append(RemoveFirst(dedup, existing), factor))
                      ELSE DedupFrom(factors, i + 1, seen, dedup)

\* Lines 320-333: the loop over the sorted factors from position i on, with
\* seen_factors (the entries kept, one per name) and deduplicated_factors.
DedupFrom(factors, i, seen, dedup) ==
  IF i > Len(factors) THEN dedup
  ELSE LET factor == factors[i]
       IN  IF \A e \in seen : e.factor # factor.factor
             THEN DedupFrom(factors, i + 1, seen \cup {factor}, Append(dedup, factor))
           ELSE LET existing == CHOOSE e \in seen : e.factor = factor.factor
                IN  IF factor.impact_score > existing.impact_score
                      THEN DedupFrom(factors, i + 1,
                                     (seen \ {existing}) \cup {factor},
                                     Append(RemoveFirst(dedup, existing), factor))
                      ELSE DedupFrom(factors, i + 1, seen, dedup)

\* Lines 312-337: sort, deduplicate, sort again.
Deduplicate(factors) == SortFactors(DedupFrom(SortFactors(factors), 1, {}, << >>))

\* The last five entries of the ranking: deduplicated_factors[-5:]
TopFive_Last(ranking) ==
  SubSeq(ranking, IF Len(ranking) > 5 THEN Len(ranking) - 4 ELSE 1, Len(ranking))

\* Line 340: deduplicated_factors[:5]
TopFive(ranking) == HeadN(ranking, 5)

\* Lines 286-340.
RankFactors ==
  /\ pc = "rank"
  /\ deduplicated_factors' = Deduplicate(Candidates(correlations, segment_impacts))
  /\ top_factors' = TopFive(deduplicated_factors')
  /\ pc' = "summary"
  /\ UNCHANGED << df, decision_metric, pearson, error, coerced, valid_mask,
                  decision_valid, total_rows, valid_rows, missing_pct,
                  excluded_columns, correlations, segment_impacts,
                  outlier_count, outlier_pct, summary >>
  /\ UNCHANGED << store, response, history >>
  /\ UNCHANGED << insight_files, saved, parked >>

\* ------------------------------------------------------------------- summary

\* Line 351: sorted(correlations[:10], key=(-abs(correlation), factor))
AllCorrelations(corrs) ==
  LET first == HeadN(corrs, 10)
  IN  Items(SortKeyed([ i \in DOMAIN first |->
        [ score |-> Abs(first[i].correlation), name |-> first[i].factor,
          item |-> first[i] ] ]))

\* Line 352: sorted(segment_impacts[:10], key=(-relative_impact_pct, factor))
AllSegmentImpacts(segs) ==
  LET first == HeadN(segs, 10)
  IN  Items(SortKeyed([ i \in DOMAIN first |->
        [ score |-> first[i].relative_impact_pct, name |-> first[i].factor,
          item |-> first[i] ] ]))

\* 10^4 * Series.median() of a non-empty series.
Median4(s) ==
  LET sorted == SortInts(s)
      n == Len(s)
  IN  IF n % 2 = 1 THEN 10000 * sorted[(n + 1) \div 2]
      ELSE 5000 * (sorted[n \div 2] + sorted[(n \div 2) + 1])

\* Lines 359-365, in units of 1e-4 (std, a square root, is left out).
MetricStats(s) ==
  LET sorted == SortInts(s)
  IN  [ mean |-> RoundQ(Sum(s) * 10000, Len(s)),
        median |-> Median4(s),
        min |-> 10000 * sorted[1],
        max |-> 10000 * sorted[Len(s)] ]

\* Lines 342-377: the summary is built and returned.
BuildSummary ==
  /\ pc = "summary"
  /\ summary' =
       << [ decision_metric |-> decision_metric,
            total_rows |-> total_rows,
            valid_rows |-> valid_rows,
            missing_percentage |-> missing_pct,
            outlier_count |-> outlier_count,
            outlier_percentage |-> outlier_pct,
            top_factors |-> top_factors,
            all_correlations |-> AllCorrelations(correlations),
            all_segment_impacts |-> AllSegmentImpacts(segment_impacts),
            excluded_columns |-> excluded_columns,
            decision_metric_stats |-> MetricStats(decision_valid) ] >>
  /\ pc' = "done"
  /\ UNCHANGED << df, decision_metric, pearson, error, coerced, valid_mask,
                  decision_valid, total_rows, valid_rows, missing_pct,
                  excluded_columns, correlations, segment_impacts,
                  outlier_count, outlier_pct, deduplicated_factors,
                  top_factors >>
  /\ UNCHANGED << store, response, history >>
  /\ UNCHANGED << insight_files, saved, parked >>

\* One call of compute_decision_eda_stats, step by step.
Next ==
  \/ CheckColumn
  \/ CoerceAndValidate
  \/ PrepareValid
  \/ ExcludeColumns
  \/ ComputeCorrelations
  \/ ComputeSegments
  \/ ComputeOutliers
  \/ RankFactors
  \/ BuildSummary

\* ------------------------------------------------- target-validation datasets

\* Every tuple over S of length at most n.
SeqsUpTo(S, n) == UNION { [ 1..m -> S ] : m \in 0..n }

price == << "p", "r", "i", "c", "e" >>
cost == << "c", "o", "s", "t" >>
qty == << "q", "t", "y" >>

\* What a cell of a string-typed target can hold: numbers with and without
\* padding, the placeholder tokens, blank, text, and a missing value.
FullPool ==
  { Str(<< "1", "0" >>), Str(<< " ", "5", " " >>), Str(<< >>), Str(<< " " >>),
    Str(<< "n", "a", "n" >>), Str(<< "N", "o", "n", "e" >>),
    Str(<< "n", "u", "l", "l" >>), Str(<< "a", "b", "c" >>), NA }

\* A number, a missing value and text: the three kinds of target cell.
CorePool == { Str(<< "1", "0" >>), NA, Str(<< "a", "b", "c" >>) }

\* The cells of a target of numeric dtype.
NumPool == { Num(3), NA }

TargetColumns ==
  SeqsUpTo(FullPool, SmallRows) \cup SeqsUpTo(CorePool, MaxRows) \cup SeqsUpTo(NumPool, MaxRows)

\* A data frame with the target column price and one numeric column; the
\* requested metric is price or, on the small frames, the absent cost.
Init ==
  /\ \E cells \in TargetColumns :
       /\ df = << [ name |-> price, cells |-> cells ],
                  [ name |-> qty, cells |-> [ i \in DOMAIN cells |-> Num(i % 3) ] ] >>
       /\ decision_metric \in (IF Len(cells) <= SmallRows THEN {price, cost} ELSE {price})
  /\ pearson = [ i \in DOMAIN df |-> 5000 ]
  /\ Fresh

Spec == Init /\ [][Next]_vars

\* --------------------------------------------------- column-exclusion datasets

\* A numeric column of n rows holding d distinct values.
NumericCol(n, d) == [ i \in 1..n |-> Num(((i - 1) % d) + 1) ]

\* A string column of n rows holding d distinct values, each len characters
\* long.
TextCol(n, d, len) ==
  [ i \in 1..n |-> Str([ j \in 1..len |-> LowerCase[((i - 1) % d) + 1] ]) ]

\* Column contents around the thresholds of Step 2: 50 %, 80 % and more than
\* 80 % distinct values; a two-valued category; one text repeated, 50 and 51
\* characters long.
ColumnContents(n) ==
  { NumericCol(n, n \div 2), NumericCol(n, (4 * n) \div 5),
    NumericCol(n, ((4 * n) \div 5) + 1),
    TextCol(n, 2, 1), TextCol(n, 1, 50), TextCol(n, 1, 51) }

user_id == << "u", "s", "e", "r", "_", "i", "d" >>
URL == << "U", "R", "L" >>
linkid == << "l", "i", "n", "k", "i", "d" >>
link == << "l", "i", "n", "k" >>
text_id == << "t", "e", "x", "t", "_", "i", "d" >>
region == << "r", "e", "g", "i", "o", "n" >>
description == << "d", "e", "s", "c", "r", "i", "p", "t", "i", "o", "n" >>

OtherNames == { user_id, URL, linkid, link, text_id, region, description }

\* Tuples of at most n columns with distinct names.
ColumnTuples(names, contents, n) ==
  { cols \in SeqsUpTo([ name : names, cells : contents ], n) :
      \A i, j \in DOMAIN cols : i # j => cols[i].name # cols[j].name }

\* A data frame of ExclRows rows: the numeric target price, all present, as
\* the first or the last of up to MaxOtherCols other columns.
InitExclusion ==
  /\ \E cols \in ColumnTuples(OtherNames, ColumnContents(ExclRows), MaxOtherCols) :
       \E at \in {0, Len(cols)} :
         df = SubSeq(cols, 1, at)
                \o << [ name |-> price, cells |-> [ i \in 1..ExclRows |-> Num(i) ] ] >>
                \o SubSeq(cols, at + 1, Len(cols))
  /\ decision_metric = price
  /\ pearson = [ i \in DOMAIN df |-> 5000 ]
  /\ Fresh

SpecExclusion == InitExclusion /\ [][Next]_vars

\* ------------------------------------------------------------ ranking datasets

\* The names of the j-th numeric and the j-th categorical column: later
\* columns sort first, so column order is not name order.
NumericName(j) == << "n", LowerCase[27 - j] >>
CategoryName(j) == << "c", LowerCase[27 - j] >>

\* A category column of n rows: "a" in the first half, "b" in the rest.
HalvesCol(n) ==
  [ i \in 1..n |-> IF i <= n \div 2 THEN Str(<< "a" >>) ELSE Str(<< "b" >>) ]

\* Categories in halves (segment means far apart), alternating (close),
\* and a single category (no second group: the factor is dropped).
CategoryContents(n) == { HalvesCol(n), TextCol(n, 2, 1), TextCol(n, 1, 1) }

\* What Series.corr returns for a numeric column, in units of 1e-4; 0.1818
\* gives the impact score of the alternating category on the target 1..10.
CorrValues == { 0 - 5000, 5000, 1818 }

\* The target price = 1..n followed by k numeric columns.
NumericFrame(n, k) ==
  << [ name |-> price, cells |-> [ i \in 1..n |-> Num(i) ] ] >>
  \o [ j \in 1..k |-> [ name |-> NumericName(j), cells |-> NumericCol(n, n \div 2) ] ]

\* A data frame of RankRows rows: the target, up to MaxNumeric numeric and
\* up to MaxCategorical categorical columns; pearson is drawn for the
\* numeric columns.
InitRanking ==
  /\ \E k \in 0..MaxNumeric :
       \E cats \in SeqsUpTo(CategoryContents(RankRows), MaxCategorical) :
         /\ df = NumericFrame(RankRows, k)
                   \o [ j \in DOMAIN cats |-> [ name |-> CategoryName(j), cells |-> cats[j] ] ]
         /\ \E r \in [ 2..(k + 1) -> CorrValues ] :
              pearson = [ i \in DOMAIN df |-> IF i \in DOMAIN r THEN r[i] ELSE 0 ]
  /\ decision_metric = price
  /\ Fresh

SpecRanking == InitRanking /\ [][Next]_vars

\* A data frame of RankRows rows: the target and WideCols numeric columns.
InitWide ==
  /\ df = NumericFrame(RankRows, WideCols)
  /\ \E r \in [ 2..(WideCols + 1) -> { 2500, 5000 } ] :
       pearson = [ i \in DOMAIN df |-> IF i \in DOMAIN r THEN r[i] ELSE 0 ]
  /\ decision_metric = price
  /\ Fresh

SpecTop10 == InitWide /\ [][Next]_vars

\* ------------------------------------------------------- Step 5 on its own

CandidateNames == { << "a" >>, << "b" >> }

CorrelationEntries ==
  { [ factor |-> n, correlation |-> c, abs_correlation |-> Abs(c), type |-> "numeric" ] :
      n \in CandidateNames, c \in { 0 - 5000, 2500 } }

SegmentEntries ==
  { [ factor |-> n, mean_difference |-> 10000, relative_impact_pct |-> r,
      top_segments |-> << >>, bottom_segments |-> << >>, type |-> "categorical" ] :
      n \in CandidateNames, r \in { 2500, 9000 } }

\* The entry of Step 5 (line 286) with any two candidate lists of at most
\* MaxCandidates entries, a name possibly in both or twice in one; the
\* target is a single valid row.
InitStep5 ==
  /\ df = << [ name |-> price, cells |-> << Num(1) >> ] >>
  /\ decision_metric = price
  /\ pearson = << 0 >>
  /\ pc = "rank"
  /\ error = NoError
  /\ coerced = << Num(1) >>
  /\ valid_mask = << TRUE >>
  /\ decision_valid = << 1 >>
  /\ total_rows = 1
  /\ valid_rows = 1
  /\ missing_pct = 0
  /\ excluded_columns = << >>
  /\ correlations \in SeqsUpTo(CorrelationEntries, MaxCandidates)
  /\ segment_impacts \in SeqsUpTo(SegmentEntries, MaxCandidates)
  /\ outlier_count = 0
  /\ outlier_pct = 0
  /\ deduplicated_factors = << >>
  /\ top_factors = << >>
  /\ summary = << >>
  /\ store = [ file |-> "csv", frame |-> df, pearson |-> pearson ]
  /\ response = << >>
  /\ history = << >>
  /\ insight_files = {}
  /\ saved = << >>
  /\ parked = IdleLocals

NextStep5 == RankFactors \/ BuildSummary

SpecStep5 == InitStep5 /\ [][NextStep5]_vars

\* ------------------------------------------------------------- the endpoint

\* The dataset file of the request.
dataset_id ==
  << "s", "a", "l", "e", "s", ".", "c", "s", "v" >>

\* The workspace of the request.
workspace_id ==
  << "w", "1" >>

\* FileNotFoundError and the exceptions load_dataset wraps.
FileNotFoundError(message) == [ type |-> "FileNotFoundError", message |-> message ]

Dataset ==
  << "D", "a", "t", "a", "s", "e", "t", " ", "'" >> \o dataset_id \o << "'" >>

\* dataset_loader.py lines 45-48.
DatasetNotFoundMessage ==
  Dataset \o
  << " ", "n", "o", "t", " ", "f", "o", "u", "n", "d", " ", "i", "n", " ",
     "w", "o", "r", "k", "s", "p", "a", "c", "e", " ", "'" >> \o workspace_id \o << "'" >>

\* dataset_loader.py lines 92-95: pandas finds no data in the file.
EmptyDataMessage ==
  Dataset \o
  << " ", "i", "s", " ", "e", "m", "p", "t", "y", " ", "o", "r", " ", "h",
     "a", "s", " ", "n", "o", " ", "v", "a", "l", "i", "d", " ", "d", "a",
     "t", "a" >>

\* dataset_loader.py lines 96-99: the text of the pandas error is left out.
ParserMessage ==
  << "F", "a", "i", "l", "e", "d", " ", "t", "o", " ", "p", "a", "r", "s",
     "e", " ", "d", "a", "t", "a", "s", "e", "t", " ", "'" >> \o dataset_id \o
  << "'", " ", "a", "s", " ", "C", "S", "V" >>

\* dataset_loader.py lines 100-103.
DecodeMessage ==
  << "F", "a", "i", "l", "e", "d", " ", "t", "o", " ", "d", "e", "c", "o",
     "d", "e", " ", "d", "a", "t", "a", "s", "e", "t", " ", "'" >> \o dataset_id \o
  << "'", ":", " ", "e", "n", "c", "o", "d", "i", "n", "g", " ", "i", "s",
     "s", "u", "e" >>

\* dataset_loader.py lines 71-74 and 104-108: the ValueError raised inside
\* the try block is caught by the last handler and wrapped.
NoColumnsMessage ==
  << "F", "a", "i", "l", "e", "d", " ", "t", "o", " ", "l", "o", "a", "d",
     " ", "d", "a", "t", "a", "s", "e", "t", " ", "'" >> \o dataset_id \o << "'", ":", " " >> \o
  Dataset \o
  << " ", "h", "a", "s", " ", "0", " ", "c", "o", "l", "u", "m", "n", "s",
     " ", "-", " ", "f", "i", "l", "e", " ", "m", "a", "y", " ", "b", "e",
     " ", "c", "o", "r", "r", "u", "p", "t", "e", "d" >>

\* dataset_loader.py lines 19-108: the data frame of the stored file, or the
\* exception raised. A file of zero bytes passes the size check (the
\* ValueError of line 58 is caught and logged at line 59) and fails in
\* read_csv.
load_dataset(file) ==
  IF file.file = "missing" THEN [ raised |-> FileNotFoundError(DatasetNotFoundMessage) ]
  ELSE IF file.file = "empty" THEN [ raised |-> ValueError(EmptyDataMessage) ]
  ELSE IF file.file = "malformed" THEN [ raised |-> ValueError(ParserMessage) ]
  ELSE IF file.file = "binary" THEN [ raised |-> ValueError(DecodeMessage) ]
  ELSE IF Len(file.frame) = 0 THEN [ raised |-> ValueError(NoColumnsMessage) ]
  ELSE [ raised |-> NoError, df |-> file.frame, pearson |-> file.pearson ]

\* dataset_loader.py lines 165-180.
dataset_exists(file) == file.file # "missing"

\* decision_eda.py lines 34-44: the fields of the response model.
ResponseFields ==
  { "decision_metric", "total_rows", "valid_rows", "missing_percentage",
    "outlier_count", "outlier_percentage", "top_factors", "all_correlations",
    "all_segment_impacts", "decision_metric_stats" }

\* DecisionEDAResponse(**stats), line 79: the model keeps its declared
\* fields and ignores every other key of stats.
DecisionEDAResponse(stats) ==
  [ f \in ResponseFields \cap DOMAIN stats |-> stats[f] ]

\* decision_eda.py lines 62-65.
NotFoundDetail == DatasetNotFoundMessage

\* decision_eda.py line 84.
InternalDetail(e) ==
  << "F", "a", "i", "l", "e", "d", " ", "t", "o", " ", "c", "o", "m", "p",
     "u", "t", "e", " ", "s", "t", "a", "t", "i", "s", "t", "i", "c", "s",
     ":", " " >> \o e.message

\* What the endpoint answers with, and the record of the request kept in
\* history: the metric, the stored file, what the call of
\* compute_decision_eda_stats gave, and the answer.
Answer(r) ==
  /\ response' = << r >>
  /\ history' = Append(history, [ decision_metric |-> decision_metric,
                                  store |-> store,
                                  invoked |-> pc # "exists",
                                  error |-> error,
                                  summary |-> summary,
                                  response |-> r ])
  /\ pc' = "idle"

\* decision_eda.py lines 47-50: a request arrives; every local of the
\* handler and of compute_decision_eda_stats is new.
ReceiveRequest ==
  /\ pc = "idle"
  /\ Len(history) < MaxRequests
  /\ decision_metric' \in {price, cost}
  /\ pc' = "exists"
  /\ df' = << >>
  /\ pearson' = << >>
  /\ error' = NoError
  /\ coerced' = << >>
  /\ valid_mask' = << >>
  /\ decision_valid' = << >>
  /\ total_rows' = 0
  /\ valid_rows' = 0
  /\ missing_pct' = 0
  /\ excluded_columns' = << >>
  /\ correlations' = << >>
  /\ segment_impacts' = << >>
  /\ outlier_count' = 0
  /\ outlier_pct' = 0
  /\ deduplicated_factors' = << >>
  /\ top_factors' = << >>
  /\ summary' = << >>
  /\ response' = << >>
  /\ UNCHANGED << store, history >>
  /\ UNCHANGED << insight_files, saved, parked >>

\* The handler without the check of lines 61-65.
CheckDatasetExists_Skipped ==
  /\ pc = "exists"
  /\ pc' = "call"
  /\ UNCHANGED << df, decision_metric, pearson, error, coerced, valid_mask,
                  decision_valid, total_rows, valid_rows, missing_pct,
                  excluded_columns, correlations, segment_impacts,
                  outlier_count, outlier_pct, deduplicated_factors,
                  top_factors, summary, store, response, history >>
  /\ UNCHANGED << insight_files, saved, parked >>

\* decision_eda.py lines 61-65: the existence check.
CheckDatasetExists ==
  /\ pc = "exists"
  /\ IF ~dataset_exists(store)
       THEN Answer([ status |-> 404, detail |-> NotFoundDetail ])
       ELSE /\ pc' = "call"
            /\ UNCHANGED << response, history >>
  /\ UNCHANGED << df, decision_metric, pearson, error, coerced, valid_mask,
                  decision_valid, total_rows, valid_rows, missing_pct,
                  excluded_columns, correlations, segment_impacts,
                  outlier_count, outlier_pct, deduplicated_factors,
                  top_factors, summary, store >>
  /\ UNCHANGED << insight_files, saved, parked >>

\* decision_eda.py line 68 and decision_eda_service.py lines 66-67:
\* compute_decision_eda_stats is called and loads the data frame.
LoadDataset ==
  /\ pc = "call"
  /\ LET loaded == load_dataset(store)
     IN  IF loaded.raised # NoError
           THEN /\ pc' = "error"
                /\ error' = loaded.raised
                /\ UNCHANGED << df, pearson >>
           ELSE /\ pc' = "start"
                /\ df' = loaded.df
                /\ pearson' = loaded.pearson
                /\ error' = error
  /\ UNCHANGED << decision_metric, coerced, valid_mask,
                  decision_valid, total_rows, valid_rows, missing_pct,
                  excluded_columns, correlations, segment_impacts,
                  outlier_count, outlier_pct, deduplicated_factors,
                  top_factors, summary, store, response, history >>
  /\ UNCHANGED << insight_files, saved, parked >>

\* decision_eda.py lines 73-84: the summary becomes the response; a
\* ValueError becomes a 400 and any other exception a 500.
Respond ==
  /\ pc \in {"done", "error"}
  /\ IF pc = "done"
       THEN Answer([ status |-> 200, body |-> DecisionEDAResponse(summary[1]) ])
     ELSE IF error.type = "ValueError"
       THEN Answer([ status |-> 400, detail |-> error.message ])
     ELSE Answer([ status |-> 500, detail |-> InternalDetail(error) ])
  /\ UNCHANGED << df, decision_metric, pearson, error, coerced, valid_mask,
                  decision_valid, total_rows, valid_rows, missing_pct,
                  excluded_columns, correlations, segment_impacts,
                  outlier_count, outlier_pct, deduplicated_factors,
                  top_factors, summary, store >>
  /\ UNCHANGED << insight_files, saved, parked >>

\* The endpoint answering requests one after the other.
NextAPI ==
  \/ ReceiveRequest
  \/ CheckDatasetExists
  \/ LoadDataset
  \/ Respond
  \/ Next


\* ------------------------------------------------------- the stored datasets

\* A stored CSV file that parses into the frame; pearson goes with the data.
CsvFile(frame, r) == [ file |-> "csv", frame |-> frame, pearson |-> r ]

\* No file, a file of zero bytes, one the parser gives up on, one that is
\* not text, and a file without columns.
BrokenFiles ==
  { [ file |-> f, frame |-> << >>, pearson |-> << >> ] :
      f \in {"missing", "empty", "malformed", "binary"} }
  \cup { CsvFile(<< >>, << >>) }

\* A string-typed target of six cells: a padded number, the four tokens of
\* line 78 and a number.
PlaceholderTarget ==
  << Str(<< " ", "5", " " >>), Str(<< >>), Str(<< "n", "a", "n" >>),
     Str(<< "N", "o", "n", "e" >>), Str(<< "n", "u", "l", "l" >>),
     Str(<< "1", "0" >>) >>

\* The target with one numeric column beside it.
WithQty(cells) ==
  << [ name |-> price, cells |-> cells ],
     [ name |-> qty, cells |-> [ i \in DOMAIN cells |-> Num(i % 3) ] ] >>

\* A frame of n rows: the numeric target, a numeric and a categorical
\* factor, and two columns that Step 2 excludes, one before and one after.
SalesFrame(n) ==
  << [ name |-> user_id, cells |-> NumericCol(n, n) ],
     [ name |-> price, cells |-> [ i \in 1..n |-> Num(i) ] ],
     [ name |-> qty, cells |-> NumericCol(n, n \div 2) ],
     [ name |-> region, cells |-> HalvesCol(n) ],
     [ name |-> URL, cells |-> TextCol(n, 2, 1) ] >>

Stores ==
  BrokenFiles
  \cup { CsvFile(WithQty(cells), << 0, 5000 >>) :
           cells \in SeqsUpTo(CorePool, SmallRows) \cup { PlaceholderTarget } }
  \cup { CsvFile(SalesFrame(RankRows), << 0, 0, 5000, 0, 0 >>) }

\* The endpoint before its first request, over one stored dataset.
Idle ==
  /\ pc = "idle"
  /\ df = << >>
  /\ decision_metric = << >>
  /\ pearson = << >>
  /\ error = NoError
  /\ coerced = << >>
  /\ valid_mask = << >>
  /\ decision_valid = << >>
  /\ total_rows = 0
  /\ valid_rows = 0
  /\ missing_pct = 0
  /\ excluded_columns = << >>
  /\ correlations = << >>
  /\ segment_impacts = << >>
  /\ outlier_count = 0
  /\ outlier_pct = 0
  /\ deduplicated_factors = << >>
  /\ top_factors = << >>
  /\ summary = << >>
  /\ response = << >>
  /\ history = << >>
  /\ insight_files = {}
  /\ saved = << >>
  /\ parked = IdleLocals

InitAPI == store \in Stores /\ Idle

SpecAPI == InitAPI /\ [][NextAPI]_vars

\* ------------------------------------------------- paired-row datasets

\* The positions a factor's cells are bad at: at most two of the last three
\* rows.
BadPositions(n) == { S \in SUBSET ((n - 2)..n) : Cardinality(S) <= 2 }

\* A factor column of n rows, d distinct numbers, with the cell bad at the
\* positions of S.
FactorCol(n, d, S, bad) ==
  [ i \in 1..n |-> IF i \in S THEN bad ELSE Num(((i - 1) % d) + 1) ]

\* Varying and constant factors, with missing cells or cells of text (the
\* column is then string-typed, and numeric-like when over 80 % coerce).
FactorCols(n) ==
  { FactorCol(n, d, S, bad) :
      d \in {1, 5}, S \in BadPositions(n), bad \in { NA, Str(<< "x" >>) } }

\* A frame of PairRows rows: the target price = 1.., missing nowhere, in
\* the first or in the last row, and the factors qty and cost.
InitPairs ==
  /\ \E t \in {0, 1, PairRows} :
       \E a, b \in FactorCols(PairRows) :
         df = << [ name |-> price,
                   cells |-> [ i \in 1..PairRows |-> IF i = t THEN NA ELSE Num(i) ] ],
                 [ name |-> qty, cells |-> a ],
                 [ name |-> cost, cells |-> b ] >>
  /\ decision_metric = price
  /\ pearson = << 0, 5000, 2500 >>
  /\ Fresh

SpecPairs == InitPairs /\ [][Next]_vars

\* ------------------------------------------ datasets with a target-less row

\* What the cell of a numeric factor can hold in the row without target: a
\* value the column has already, a new one, nothing, or text.
QtyCells == { Num(1), Num(TwinRows), NA, Str(<< "x" >>) }

\* The same for a category: one of its values or a new one.
RegionCells == { Str(<< "a" >>), Str(<< "z" >>) }

\* A frame of n rows whose last row has no target: a numeric factor with
\* 80 % of n distinct values in the rows before, and a category; q and g
\* are the factors' cells in the last row.
TwinFrame(n, q, g) ==
  << [ name |-> price, cells |-> [ i \in 1..n |-> IF i = n THEN NA ELSE Num(i) ] ],
     [ name |-> qty,
       cells |-> [ i \in 1..n |-> IF i = n THEN q ELSE NumericCol(n, (4 * n) \div 5)[i] ] ],
     [ name |-> region,
       cells |-> [ i \in 1..n |-> IF i = n THEN g ELSE HalvesCol(n - 1)[i] ] ] >>

TwinFiles ==
  { CsvFile(TwinFrame(TwinRows, q, g), << 0, 5000, 0 >>) : q \in QtyCells, g \in RegionCells }

\* dataset_loader.py lines 111-162: between two requests the dataset is
\* saved again with other factor cells in the row that has no target.
SaveDataset ==
  /\ pc = "idle"
  /\ Len(history) \in 1..(MaxRequests - 1)
  /\ store' \in TwinFiles \ {store}
  /\ UNCHANGED << df, decision_metric, pearson, pc, error, coerced, valid_mask,
                  decision_valid, total_rows, valid_rows, missing_pct,
                  excluded_columns, correlations, segment_impacts,
                  outlier_count, outlier_pct, deduplicated_factors,
                  top_factors, summary, response, history >>
  /\ UNCHANGED << insight_files, saved, parked >>

NextTwin == SaveDataset \/ NextAPI

InitTwin == store \in TwinFiles /\ Idle

SpecTwin == InitTwin /\ [][NextTwin]_vars

\* ------------------------------------------- datasets with uneven targets

\* Target values close together and apart.
SpreadValues == { 1, 2, 3, 6 }

\* A frame of OutlierRows - 1 or OutlierRows rows: a numeric target over
\* SpreadValues and one numeric column.
InitOutliers ==
  /\ \E n \in {OutlierRows - 1, OutlierRows} :
       \E values \in [ 1..n -> SpreadValues ] :
         df = << [ name |-> price, cells |-> [ i \in 1..n |-> Num(values[i]) ] ],
                 [ name |-> qty, cells |-> NumericCol(n, 2) ] >>
  /\ decision_metric = price
  /\ pearson = << 0, 5000 >>
  /\ Fresh

SpecOutliers == InitOutliers /\ [][Next]_vars

\* ---------------------------------------------- datasets with few categories

\* A category column of n rows: "a" but for the last three rows, which
\* hold "a", "b" or nothing.
FewCategories(n) ==
  { [ i \in 1..n |-> IF i <= n - 3 THEN Str(<< "a" >>) ELSE tail[i - (n - 3)] ] :
      tail \in [ 1..3 -> { Str(<< "a" >>), Str(<< "b" >>), NA } ] }

\* A frame of SegmentRows rows: the target 1.. with no value in the last
\* row, and two category columns.
InitSegments ==
  /\ \E a, b \in FewCategories(SegmentRows) :
       df = << [ name |-> price,
                 cells |-> [ i \in 1..SegmentRows |->
                               IF i = SegmentRows THEN NA ELSE Num(i) ] ],
               [ name |-> CategoryName(1), cells |-> a ],
               [ name |-> CategoryName(2), cells |-> b ] >>
  /\ decision_metric = price
  /\ pearson = << 0, 0, 0 >>
  /\ Fresh

SpecSegments == InitSegments /\ [][Next]_vars

\* ------------------------------------------ datasets with signed targets

\* Target values of either sign.
SignedValues == { 0 - 2, 0 - 1, 0, 1, 2 }

\* A frame of ImpactRows rows: a numeric target that is 0 but for its last
\* four rows, a numeric column and a category in halves or alternating;
\* pearson of the numeric column is drawn from the ends and the inside of
\* [-1, 1].
InitImpact ==
  /\ \E tail \in [ 1..4 -> SignedValues ] :
       \E cat \in { HalvesCol(ImpactRows), TextCol(ImpactRows, 2, 1) } :
         df = << [ name |-> price,
                   cells |-> [ i \in 1..ImpactRows |->
                                 IF i <= ImpactRows - 4 THEN Num(0)
                                 ELSE Num(tail[i - (ImpactRows - 4)]) ] ],
                 [ name |-> qty, cells |-> NumericCol(ImpactRows, ImpactRows \div 2) ],
                 [ name |-> region, cells |-> cat ] >>
  /\ decision_metric = price
  /\ \E r \in { 0 - 10000, 0 - 3333, 0, 10000 } : pearson = << 0, r, 0 >>
  /\ Fresh

SpecImpact == InitImpact /\ [][Next]_vars

\* --------------------------------------------------------- kinds of cells
\* The texts a cell of a CSV file holds: a number, a date of this century, a
\* date of the year 1800, a compact date (which is also a number) and a word.
NumberText == << "5" >>
DateText == << "2", "0", "0", "1", "-", "0", "1", "-", "0", "1" >>
OldDateText == << "1", "8", "0", "0", "-", "0", "1", "-", "0", "1" >>
CompactDateText == << "2", "0", "0", "1", "0", "1", "0", "1" >>
WordText == << "a", "b", "c" >>

TextKinds ==
  { Str(NumberText), Str(DateText), Str(OldDateText), Str(CompactDateText),
    Str(WordText), NA }

\* n cells: the first j are a, the next k are b, the others are c.
RunsCol(n, a, j, b, k, c) ==
  [ i \in 1..n |-> IF i <= j THEN a ELSE IF i <= j + k THEN b ELSE c ]

\* A frame of TypeRows rows: a numeric target and one column that read_csv
\* leaves as text (up to three kinds of cells in any proportions) or parses
\* as numbers with missing cells.
InitTypes ==
  /\ \E j \in 0..TypeRows : \E k \in 0..(TypeRows - j) :
       \E a \in TextKinds \cup { Num(7) } :
         \E b, c \in IF a.k = "num" THEN { Num(7), NA } ELSE TextKinds :
           df = << [ name |-> price, cells |-> NumericCol(TypeRows, TypeRows) ],
                   [ name |-> qty, cells |-> RunsCol(TypeRows, a, j, b, k, c) ] >>
  /\ decision_metric = price
  /\ pearson = << 0, 5000 >>
  /\ Fresh

SpecTypes == InitTypes /\ [][Next]_vars

\* ------------------------------------------------ a dataset that goes away
\* The stored file is removed by another operation on the workspace after
\* the check of decision_eda.py line 61 and before load_dataset reads it.
DeleteDataset ==
  /\ pc = "call"
  /\ store.file # "missing"
  /\ store' = [ store EXCEPT !.file = "missing" ]
  /\ UNCHANGED << df, decision_metric, pearson, pc, error, coerced, valid_mask,
                  decision_valid, total_rows, valid_rows, missing_pct,
                  excluded_columns, correlations, segment_impacts,
                  outlier_count, outlier_pct, deduplicated_factors,
                  top_factors, summary, response, history >>
  /\ UNCHANGED << insight_files, saved, parked >>

NextRace == DeleteDataset \/ NextAPI

SpecRace == InitAPI /\ [][NextRace]_vars

\* ---------------------------------------------------------- insight storage
\* insight_storage.py. A file of the insights directory is [name, content];
\* a snapshot keeps the fields the operations below read or return
\* (dataset_hash and created_at are written and never read by them).

\* A second dataset of the workspace.
other_dataset_id ==
  << "c", "o", "s", "t", "s", ".", "c", "s", "v" >>

InsightDatasets == { dataset_id, other_dataset_id }

InsightMetrics == { price, cost }

\* The statistics handed to a save: two payloads that differ.
InsightPayloads == { "stats_a", "stats_b" }

\* Lines 110-111: replace("/", "_").replace("\\", "_")
Sanitize(s) == [ i \in DOMAIN s |-> IF s[i] \in { "/", "\\" } THEN "_" ELSE s[i] ]

\* Line 155: decision_metric.replace('/', '_')
SanitizeSlash(s) == [ i \in DOMAIN s |-> IF s[i] = "/" THEN "_" ELSE s[i] ]

\* f"{n}" of a natural number.
RECURSIVE Decimal(_)
Decimal(n) ==
  IF n < 10 THEN << Digits[n + 1] >>
  ELSE Decimal(n \div 10) \o << Digits[(n % 10) + 1] >>

JsonSuffix == << ".", "j", "s", "o", "n" >>

VersionMark == << "_", "v" >>

\* Lines 94-120, get_insight_file_path: the file name of a version, or of the
\* latest snapshot when version is empty.
get_insight_file_path(dataset, metric, version) ==
  IF Len(version) > 0
    THEN Sanitize(dataset) \o << "_" >> \o Sanitize(metric) \o VersionMark \o version
           \o JsonSuffix
    ELSE Sanitize(dataset) \o << "_" >> \o Sanitize(metric)
           \o << "_", "l", "a", "t", "e", "s", "t" >> \o JsonSuffix

StartsWith(s, p) == Len(s) >= Len(p) /\ SubSeq(s, 1, Len(p)) = p

EndsWith(s, p) == Len(s) >= Len(p) /\ SubSeq(s, Len(s) - Len(p) + 1, Len(s)) = p

\* Path.glob of the pattern  *<mid>*<suf>
GlobAnyMidAny(name, mid, suf) ==
  /\ EndsWith(name, suf)
  /\ \E i \in 1..Len(name) :
       /\ i + Len(mid) - 1 <= Len(name) - Len(suf)
       /\ SubSeq(name, i, i + Len(mid) - 1) = mid

\* Path.glob of the pattern  <head>*<suf>
GlobHeadAny(name, head, suf) ==
  /\ Len(name) >= Len(head) + Len(suf)
  /\ StartsWith(name, head)
  /\ EndsWith(name, suf)

\* Path.stem: the name without its last suffix.
Stem(name) ==
  LET dots == { i \in 2..Len(name) : name[i] = "." }
  IN  IF dots = {} THEN name
      ELSE SubSeq(name, 1, (CHOOSE i \in dots : \A j \in dots : j <= i) - 1)

\* file.stem.split("_v")[-1]
VersionMatch(name) ==
  LET stem == Stem(name)
      marks == { i \in 1..(Len(stem) - 1) : SubSeq(stem, i, i + 1) = VersionMark }
  IN  IF marks = {} THEN stem
      ELSE SubSeq(stem, (CHOOSE i \in marks : \A j \in marks : j <= i) + 2, Len(stem))

\* str.isdigit()
IsDigitString(s) == Len(s) > 0 /\ \A i \in DOMAIN s : IsDigit(s[i])

\* Lines 152-161: the numbers of the versions found by the pattern
\* *_<metric>_v*.json in the insights directory of the workspace.
existing_versions(files, metric) ==
  { DigitsVal(VersionMatch(f.name)) :
      f \in { g \in files :
                /\ GlobAnyMidAny(g.name, << "_" >> \o SanitizeSlash(metric) \o VersionMark,
                                 JsonSuffix)
                /\ IsDigitString(VersionMatch(g.name)) } }

\* Lines 149-166: the version of a save that names none.
NextVersion(files, metric) ==
  LET found == existing_versions(files, metric)
  IN  IF found # {}
        THEN Decimal((CHOOSE x \in found : \A y \in found : y <= x) + 1)
        ELSE << "1" >>

\* open(path, "w") and json.dump: the file of that name is replaced.
WriteFile(files, name, content) ==
  { f \in files : f.name # name } \cup { [ name |-> name, content |-> content ] }

\* Lines 123-213, save_insight_snapshot without a version: the snapshot is
\* written under its version and as the latest one, and the version returned.
SaveInsightSnapshot ==
  /\ pc = "idle"
  /\ Len(saved) < MaxSaves
  /\ \E dataset \in InsightDatasets, metric \in InsightMetrics,
        backend_stats \in InsightPayloads :
       LET version == NextVersion(insight_files, metric)
           snapshot == [ version |-> version,
                         workspace_id |-> workspace_id,
                         dataset_id |-> dataset,
                         decision_metric |-> metric,
                         backend_stats |-> backend_stats ]
           file_path == get_insight_file_path(dataset, metric, version)
           latest_path == get_insight_file_path(dataset, metric, << >>)
       IN  /\ insight_files' =
                WriteFile(WriteFile(insight_files, file_path, snapshot),
                          latest_path, snapshot)
           /\ saved' = Append(saved, [ dataset_id |-> dataset,
                                       decision_metric |-> metric,
                                       backend_stats |-> backend_stats,
                                       version |-> version ])
  /\ UNCHANGED << df, decision_metric, pearson, pc, error, coerced, valid_mask,
                  decision_valid, total_rows, valid_rows, missing_pct,
                  excluded_columns, correlations, segment_impacts,
                  outlier_count, outlier_pct, deduplicated_factors,
                  top_factors, summary, store, response, history >>
  /\ UNCHANGED parked

\* Lines 216-251, load_insight_snapshot: << the snapshot >>, or << >> for None.
load_insight_snapshot(files, dataset, metric, version) ==
  LET file_path == get_insight_file_path(dataset, metric, version)
      found == { f \in files : f.name = file_path }
  IN  IF found = {} THEN << >> ELSE << (CHOOSE f \in found : TRUE).content >>

\* sorted(versions, key=int)
RECURSIVE SortedByInt(_)
SortedByInt(versions) ==
  IF versions = {} THEN << >>
  ELSE LET first == CHOOSE x \in versions :
                      \A y \in versions : DigitsVal(x) <= DigitsVal(y)
       IN  << first >> \o SortedByInt(versions \ { first })

\* Lines 279-314, get_all_versions: the versions found by the pattern
\* <dataset>_<metric>_v*.json, in increasing order.
get_all_versions(files, dataset, metric) ==
  SortedByInt({ VersionMatch(f.name) :
      f \in { g \in files :
                /\ GlobHeadAny(g.name,
                               Sanitize(dataset) \o << "_" >> \o Sanitize(metric)
                                 \o VersionMark,
                               JsonSuffix)
                /\ IsDigitString(VersionMatch(g.name)) } })

\* The workspace holds one dataset and no snapshot.
InitInsights ==
  /\ store = CsvFile(SalesFrame(RankRows), << 0, 0, 5000, 0, 0 >>)
  /\ Idle

SpecInsights == InitInsights /\ [][SaveInsightSnapshot]_vars

\* ----------------------------------------------------- interleaved calls
\* Two calls of compute_decision_eda_stats in progress at once. Every name
\* the function assigns (lines 44-377) is a local of the call: the running
\* call has its locals in the variables of the module, the other one in
\* parked.
Locals ==
  [ df |-> df, decision_metric |-> decision_metric, pearson |-> pearson,
    pc |-> pc, error |-> error, coerced |-> coerced, valid_mask |-> valid_mask,
    decision_valid |-> decision_valid, total_rows |-> total_rows,
    valid_rows |-> valid_rows, missing_pct |-> missing_pct,
    excluded_columns |-> excluded_columns, correlations |-> correlations,
    segment_impacts |-> segment_impacts, outlier_count |-> outlier_count,
    outlier_pct |-> outlier_pct, deduplicated_factors |-> deduplicated_factors,
    top_factors |-> top_factors, summary |-> summary, response |-> response ]

\* The switch between two calls were excluded_columns (line 115) a list of
\* the module instead of a local: the resumed call goes on with the list the
\* other call left.
Switch_SharedExcluded ==
  /\ Len(history) >= 1
  /\ pc # "idle" \/ parked.pc # "idle"
  /\ parked' = Locals
  /\ df' = parked.df
  /\ decision_metric' = parked.decision_metric
  /\ pearson' = parked.pearson
  /\ pc' = parked.pc
  /\ error' = parked.error
  /\ coerced' = parked.coerced
  /\ valid_mask' = parked.valid_mask
  /\ decision_valid' = parked.decision_valid
  /\ total_rows' = parked.total_rows
  /\ valid_rows' = parked.valid_rows
  /\ missing_pct' = parked.missing_pct
  /\ correlations' = parked.correlations
  /\ segment_impacts' = parked.segment_impacts
  /\ outlier_count' = parked.outlier_count
  /\ outlier_pct' = parked.outlier_pct
  /\ deduplicated_factors' = parked.deduplicated_factors
  /\ top_factors' = parked.top_factors
  /\ summary' = parked.summary
  /\ response' = parked.response
  /\ UNCHANGED << excluded_columns, store, history, insight_files, saved >>

\* The running call is suspended between two of its steps and the other one
\* resumes where it was suspended. The first request of a behaviour is
\* answered before a second one starts, so that it runs alone.
Switch ==
  /\ Len(history) >= 1
  /\ pc # "idle" \/ parked.pc # "idle"
  /\ parked' = Locals
  /\ df' = parked.df
  /\ decision_metric' = parked.decision_metric
  /\ pearson' = parked.pearson
  /\ pc' = parked.pc
  /\ error' = parked.error
  /\ coerced' = parked.coerced
  /\ valid_mask' = parked.valid_mask
  /\ decision_valid' = parked.decision_valid
  /\ total_rows' = parked.total_rows
  /\ valid_rows' = parked.valid_rows
  /\ missing_pct' = parked.missing_pct
  /\ excluded_columns' = parked.excluded_columns
  /\ correlations' = parked.correlations
  /\ segment_impacts' = parked.segment_impacts
  /\ outlier_count' = parked.outlier_count
  /\ outlier_pct' = parked.outlier_pct
  /\ deduplicated_factors' = parked.deduplicated_factors
  /\ top_factors' = parked.top_factors
  /\ summary' = parked.summary
  /\ response' = parked.response
  /\ UNCHANGED << store, history, insight_files, saved >>

NextCalls == Switch \/ NextAPI

\* A frame of n rows in which price and cost are both numeric targets: with
\* price as the target Step 2 excludes user_id and URL, with cost it excludes
\* price as well.
CostFrame(n) ==
  << [ name |-> user_id, cells |-> NumericCol(n, n) ],
     [ name |-> price, cells |-> [ i \in 1..n |-> Num(i) ] ],
     [ name |-> cost, cells |-> NumericCol(n, n \div 2) ],
     [ name |-> region, cells |-> HalvesCol(n) ],
     [ name |-> URL, cells |-> TextCol(n, 2, 1) ] >>

\* The datasets the interleaved requests are made on: one with both targets,
\* one whose only target is text, and none.
CallStores ==
  { CsvFile(CostFrame(RankRows), << 10000, 5000, 5000, 0, 0 >>),
    CsvFile(WithQty(PlaceholderTarget), << 0, 5000 >>),
    [ file |-> "missing", frame |-> << >>, pearson |-> << >> ] }

InitCalls == store \in CallStores /\ Idle

SpecCalls == InitCalls /\ [][NextCalls]_vars

\* ===================================================================== claims

\* The target column of the data frame (the metric is one of its columns).
TargetCells == df[TargetIdx].cells

\* The number of target cells that coerced to a number.
CoercedCount == Cardinality({ i \in DOMAIN coerced : coerced[i].k = "num" })

\* The call is past the validation of a target that exists.
Validated == decision_metric \in ColumnNames /\ pc \notin {"start", "coerce"}

Rejected == pc = "error" /\ error = InvalidMetricError

IsEmptyCell(c) == c.k = "na" \/ (c.k = "str" /\ Strip(c.s) \in Placeholders)

NonEmptyCount == Cardinality({ i \in DOMAIN TargetCells : ~IsEmptyCell(TargetCells[i]) })

\* C2: the target is rejected exactly when fewer than 90 % of its non-empty
\* cells coerce to a number (or none coerces): empty cells do not count.
C2_ThresholdOnNonEmptyCells ==
  Validated =>
    (Rejected <=> (CoercedCount = 0 \/ CoercedCount * 10 < NonEmptyCount * 9))

\* The metric is no column of the data frame.
TargetAbsent == decision_metric \notin ColumnNames

\* The metric is a column that does not pass the validation of Step 1.
TargetInvalid ==
  /\ ~TargetAbsent
  /\ LET c == Coerce(TargetCells)
         v == Cardinality({ i \in DOMAIN c : c[i].k = "num" })
     IN  v = 0 \/ v * 10 < Len(c) * 9

\* C3: when the target is absent or fails validation the call ends in an
\* error and returns no summary, and no exclusion, correlation, segment,
\* outlier or ranking step has run.
C3_AllOrNothing ==
  (TargetAbsent \/ TargetInvalid) =>
    /\ pc \in {"start", "coerce", "error"}
    /\ pc = "error" => error # NoError
    /\ summary = << >>
    /\ excluded_columns = << >>
    /\ correlations = << >>
    /\ segment_impacts = << >>
    /\ outlier_count = 0 /\ outlier_pct = 0
    /\ deduplicated_factors = << >>
    /\ top_factors = << >>

\* A target of which some cells coerce, but too few: the call has failed.
C3_Witness == Rejected /\ CoercedCount > 0 /\ summary = << >>

\* A list of [score, name] entries in which every entry has a higher score
\* than the next, or the same score and a smaller name.
StrictlyRanked(s) ==
  \A i \in 1..(Len(s) - 1) :
    \/ s[i].score > s[i + 1].score
    \/ s[i].score = s[i + 1].score /\ StrLess(s[i].name, s[i + 1].name)

TopFactorKeys(s) ==
  [ i \in DOMAIN s.top_factors |->
      [ score |-> s.top_factors[i].impact_score, name |-> s.top_factors[i].factor ] ]

AllCorrelationKeys(s) ==
  [ i \in DOMAIN s.all_correlations |->
      [ score |-> Abs(s.all_correlations[i].correlation),
        name |-> s.all_correlations[i].factor ] ]

AllSegmentKeys(s) ==
  [ i \in DOMAIN s.all_segment_impacts |->
      [ score |-> s.all_segment_impacts[i].relative_impact_pct,
        name |-> s.all_segment_impacts[i].factor ] ]

\* C4: in every returned summary top_factors, all_correlations and
\* all_segment_impacts are ordered by descending score (impact_score,
\* absolute correlation, relative_impact_pct), equal scores by ascending
\* factor name.
C4_RankedLists ==
  summary # << >> =>
    /\ StrictlyRanked(TopFactorKeys(summary[1]))
    /\ StrictlyRanked(AllCorrelationKeys(summary[1]))
    /\ StrictlyRanked(AllSegmentKeys(summary[1]))

\* A list of keys with two adjacent entries of the same score.
HasTie(s) == \E i \in 1..(Len(s) - 1) : s[i].score = s[i + 1].score

\* A summary with equal scores next to each other in all three lists, and
\* a numeric and a categorical factor tied in top_factors.
C4_Witness ==
  /\ summary # << >>
  /\ HasTie(AllCorrelationKeys(summary[1]))
  /\ HasTie(AllSegmentKeys(summary[1]))
  /\ \E i \in 1..(Len(top_factors) - 1) :
       /\ top_factors[i].impact_score = top_factors[i + 1].impact_score
       /\ top_factors[i].type # top_factors[i + 1].type

\* Step 5 has run.
Ranked == pc \in {"summary", "done"}

\* The factor names Steps 3 and 4 produced.
FactorNames ==
  { correlations[i].factor : i \in DOMAIN correlations }
    \cup { segment_impacts[i].factor : i \in DOMAIN segment_impacts }

\* The impact scores of the candidate entries of one factor name.
ScoresOf(name) ==
  { correlations[i].abs_correlation :
      i \in { j \in DOMAIN correlations : correlations[j].factor = name } }
    \cup { segment_impacts[i].relative_impact_pct :
      i \in { j \in DOMAIN segment_impacts : segment_impacts[j].factor = name } }

BestScore(name) == CHOOSE x \in ScoresOf(name) : \A y \in ScoresOf(name) : y <= x

TopNames == { top_factors[i].factor : i \in DOMAIN top_factors }

\* C5: top_factors holds min(5, number of distinct factors) entries, the
\* first of the deduplicated ranking, and no factor left out ranks before
\* one that is in it.
C5_TopFiveOfRanking ==
  Ranked =>
    /\ Len(top_factors) = (IF Cardinality(FactorNames) < 5 THEN Cardinality(FactorNames) ELSE 5)
    /\ top_factors = SubSeq(deduplicated_factors, 1, Len(top_factors))
    /\ TopNames \subseteq FactorNames
    /\ \A out \in FactorNames \ TopNames : \A i \in DOMAIN top_factors :
         ~ \/ BestScore(out) > top_factors[i].impact_score
           \/ /\ BestScore(out) = top_factors[i].impact_score
              /\ StrLess(out, top_factors[i].factor)

\* Seven factors were produced and five of them returned.
C5_Witness ==
  /\ pc = "done"
  /\ Cardinality(FactorNames) = 7
  /\ Len(summary[1].top_factors) = 5

\* Every name of the list occurs once.
UniqueNames(s) == \A i, j \in DOMAIN s : s[i].factor = s[j].factor => i = j

\* C6: whatever the candidate entries, a factor name occurs at most once
\* in the deduplicated ranking and in top_factors, and the entry kept for a
\* name has the highest impact_score of that name's entries.
C6_Deduplication ==
  Ranked =>
    /\ UniqueNames(deduplicated_factors)
    /\ UniqueNames(top_factors)
    /\ { deduplicated_factors[i].factor : i \in DOMAIN deduplicated_factors } = FactorNames
    /\ \A i \in DOMAIN deduplicated_factors :
         deduplicated_factors[i].impact_score = BestScore(deduplicated_factors[i].factor)
    /\ \A i \in DOMAIN top_factors :
         top_factors[i].impact_score = BestScore(top_factors[i].factor)

\* A name is both a numeric and a categorical candidate, the categorical
\* entry scoring higher, and the categorical entry is the one returned.
C6_Witness ==
  /\ pc = "done"
  /\ \E i \in DOMAIN correlations : \E j \in DOMAIN segment_impacts :
       /\ correlations[i].factor = segment_impacts[j].factor
       /\ correlations[i].abs_correlation < segment_impacts[j].relative_impact_pct
       /\ \E k \in DOMAIN summary[1].top_factors :
            /\ summary[1].top_factors[k].factor = correlations[i].factor
            /\ summary[1].top_factors[k].type = "categorical"

\* C7: all_correlations holds the 10 numeric factors of highest absolute
\* correlation among all that Step 3 computed (all of them up to 10), and
\* all_segment_impacts the 10 categorical factors of highest
\* relative_impact_pct: no factor left out scores strictly higher than a
\* listed one, wherever its column is.
C7_TopTenOfAll ==
  summary # << >> =>
    /\ Len(summary[1].all_correlations) = (IF Len(correlations) < 10 THEN Len(correlations) ELSE 10)
    /\ Len(summary[1].all_segment_impacts) = (IF Len(segment_impacts) < 10 THEN Len(segment_impacts) ELSE 10)
    /\ \A i \in DOMAIN correlations : \A l \in DOMAIN summary[1].all_correlations :
         (\A m \in DOMAIN summary[1].all_correlations :
            summary[1].all_correlations[m].factor # correlations[i].factor)
         => Abs(correlations[i].correlation) <= Abs(summary[1].all_correlations[l].correlation)
    /\ \A i \in DOMAIN segment_impacts : \A l \in DOMAIN summary[1].all_segment_impacts :
         (\A m \in DOMAIN summary[1].all_segment_impacts :
            summary[1].all_segment_impacts[m].factor # segment_impacts[i].factor)
         => segment_impacts[i].relative_impact_pct
              <= summary[1].all_segment_impacts[l].relative_impact_pct

\* The position of a column in df.
PosOf(name) == CHOOSE i \in DOMAIN df : df[i].name = name

\* The call has returned its summary.
Returned == summary # << >>

\* The excluded_columns list of the returned summary.
Reported == summary[1].excluded_columns

OtherColumns == { i \in DOMAIN df : df[i].name # decision_metric }

HasKeyword(name) ==
  \E i \in DOMAIN excluded_patterns : Contains(excluded_patterns[i], Lower(name))

\* unique_pct > p for column i
UniquePctAbove(i, p) == UniqueCount(df[i].cells) * 100 > p * NumRows

\* The reasons the returned summary gives for a column.
ReasonsOf(name) ==
  { Reported[e].reason : e \in { x \in DOMAIN Reported : Reported[x].column = name } }

PatternReasons ==
  { "URL column", "Free-text column", "Identifier column", "Text/identifier pattern" }

\* C8: the exclusion checks run in the order uniqueness, name keyword, free
\* text and stop at the first match: a non-target column has at most one
\* entry, with one of the five reasons, the target has none, and the
\* entries are in column order.
C8_FirstMatchExclusion ==
  Returned =>
    /\ \A e \in DOMAIN Reported :
         /\ Reported[e].column \in ColumnNames \ {decision_metric}
         /\ Reported[e].reason \in PatternReasons \cup {"High uniqueness"}
    /\ \A e, f \in DOMAIN Reported :
         e < f => PosOf(Reported[e].column) < PosOf(Reported[f].column)
    /\ \A i \in OtherColumns :
         IF UniquePctAbove(i, 80)
           THEN ReasonsOf(df[i].name) = {"High uniqueness"}
         ELSE IF HasKeyword(df[i].name)
           THEN /\ Cardinality(ReasonsOf(df[i].name)) = 1
                /\ ReasonsOf(df[i].name) \subseteq PatternReasons
         ELSE IF InferColumnType(df[i].cells) = "categorical" /\ LongText(df[i].cells)
           THEN ReasonsOf(df[i].name) = {"Free-text column"}
         ELSE ReasonsOf(df[i].name) = {}

\* Two columns are excluded, the first for its uniqueness although its
\* name holds a keyword, the second by a later check.
C8_Witness ==
  /\ Returned
  /\ Len(Reported) = 2
  /\ Reported[1].reason = "High uniqueness"
  /\ HasKeyword(Reported[1].column)
  /\ Reported[2].reason # "High uniqueness"

\* C9: a column that is more than 80 % unique and matches "id" is excluded
\* for "High uniqueness"; "Identifier column" is only reported for a column
\* with 50 < unique_pct <= 80.
C9_UniquenessBeforeIdentifier ==
  Returned =>
    \A i \in OtherColumns :
      /\ (Contains(<< "i", "d" >>, Lower(df[i].name)) /\ UniquePctAbove(i, 80))
           => ReasonsOf(df[i].name) = {"High uniqueness"}
      /\ "Identifier column" \in ReasonsOf(df[i].name)
           => (UniquePctAbove(i, 50) /\ ~UniquePctAbove(i, 80))

\* user_id is more than 80 % unique and excluded for its uniqueness.
C9_Witness ==
  /\ Returned
  /\ user_id \in ColumnNames
  /\ UniquePctAbove(PosOf(user_id), 80)
  /\ ReasonsOf(user_id) = {"High uniqueness"}

\* C10: a column with unique_pct <= 80 whose lower-cased name contains one
\* of the eight keywords is excluded, with the reason of the first matching
\* sub-rule (url/link, description/text/comment, id and unique_pct > 50,
\* otherwise the pattern reason); a name without a keyword is never excluded
\* by this rule, even with "link", "text" or "comment" in it.
C10_KeywordReasons ==
  Returned =>
    \A i \in { j \in OtherColumns : ~UniquePctAbove(j, 80) } :
      LET low == Lower(df[i].name)
      IN  IF HasKeyword(df[i].name)
            THEN ReasonsOf(df[i].name) =
                   { IF Contains(<< "u", "r", "l" >>, low) \/ Contains(<< "l", "i", "n", "k" >>, low)
                       THEN "URL column"
                     ELSE IF \/ Contains(<< "d", "e", "s", "c", "r", "i", "p", "t", "i", "o", "n" >>, low)
                             \/ Contains(<< "t", "e", "x", "t" >>, low)
                             \/ Contains(<< "c", "o", "m", "m", "e", "n", "t" >>, low)
                       THEN "Free-text column"
                     ELSE IF Contains(<< "i", "d" >>, low) /\ UniquePctAbove(i, 50)
                       THEN "Identifier column"
                     ELSE "Text/identifier pattern" }
            ELSE \/ ReasonsOf(df[i].name) = {}
                 \/ /\ ReasonsOf(df[i].name) = {"Free-text column"}
                    /\ InferColumnType(df[i].cells) = "categorical"
                    /\ LongText(df[i].cells)

\* linkid (keyword id, sub-pattern link) is excluded as a URL column while
\* link, which holds no keyword, is kept.
C10_Witness ==
  /\ Returned
  /\ linkid \in ColumnNames /\ link \in ColumnNames
  /\ ~UniquePctAbove(PosOf(linkid), 80)
  /\ ReasonsOf(linkid) = {"URL column"}
  /\ ReasonsOf(link) = {}


\* The requests answered so far.
Entries == Range(history)

\* The requests answered with the given status.
Answered(status) == { e \in Entries : e.response.status = status }

\* C11: every column excluded in Step 2 is in the excluded_columns of the
\* summary compute_decision_eda_stats returns, and the response of a
\* successful request still carries that list, complete.
C11_ExcludedColumnsDelivered ==
  \A e \in Answered(200) :
    /\ e.summary[1].excluded_columns =
         ExcludedFrom(e.store.frame, e.decision_metric, Len(e.store.frame[1].cells), 1)
    /\ "excluded_columns" \in DOMAIN e.response.body
    /\ e.response.body.excluded_columns = e.summary[1].excluded_columns

StoredTarget(e) ==
  LET frame == e.store.frame
  IN  frame[CHOOSE i \in DOMAIN frame : frame[i].name = e.decision_metric].cells

\* C16: the six cells " 5 ", "", "nan", "None", "null", "10" coerce to 5,
\* four missing values and 10, and the request for that target is answered
\* with a summary whose valid_rows is 2.
C16_PlaceholdersNormalised ==
  /\ Coerce(PlaceholderTarget) = << Num(5), NA, NA, NA, NA, Num(10) >>
  /\ \A e \in Entries :
       (/\ e.store.file = "csv"
        /\ e.decision_metric \in { c.name : c \in Range(e.store.frame) }
        /\ StoredTarget(e) = PlaceholderTarget)
         => /\ e.summary # << >>
            /\ e.summary[1].valid_rows = 2

\* Whether a message tells the caller to clean or convert the column.
InstructsToCleanOrConvert(message) ==
  /\ Contains(<< "c", "l", "e", "a", "n" >>, Lower(message))
  /\ Contains(<< "c", "o", "n", "v", "e", "r", "t" >>, Lower(message))

\* C17: the detail of every 400 answer tells the caller to clean or convert
\* the column, whether the target was not found or failed the threshold.
C17_UserErrorInstructs ==
  \A e \in Answered(400) : InstructsToCleanOrConvert(e.response.detail)

\* C18: a request whose dataset does not exist at the check is answered
\* with 404 there and then, and compute_decision_eda_stats is entered only
\* from a check that found the dataset.
C18_ExistenceCheckFirst ==
  [][ /\ (pc = "exists" /\ ~dataset_exists(store))
          => /\ pc' = "idle"
             /\ response' = << [ status |-> 404, detail |-> NotFoundDetail ] >>
             /\ ~history'[Len(history')].invoked
      /\ pc' = "call" => (pc = "exists" /\ dataset_exists(store))
      /\ (pc' = "start" \/ (pc' = "error" /\ pc \notin {"start", "coerce"}))
          => pc = "call" ]_vars

\* A request for a missing dataset was answered 404 without a call.
C18_Witness ==
  \E e \in Answered(404) : ~e.invoked /\ e.summary = << >> /\ e.error = NoError

\* C19: a 400 is answered only for a target column that is absent or
\* invalid, so only when the dataset loaded; a dataset that cannot be loaded
\* or parsed is answered with a 500.
C19_OnlyTargetErrorsAre400 ==
  \A e \in Entries :
    /\ e.response.status = 400 => load_dataset(e.store).raised = NoError
    /\ (e.invoked /\ load_dataset(e.store).raised # NoError)
         => e.response.status = 500

\* The locals of the handler and of compute_decision_eda_stats hold nothing.
NothingRetained ==
  /\ df = << >> /\ pearson = << >> /\ error = NoError
  /\ coerced = << >> /\ valid_mask = << >> /\ decision_valid = << >>
  /\ total_rows = 0 /\ valid_rows = 0 /\ missing_pct = 0
  /\ excluded_columns = << >> /\ correlations = << >>
  /\ segment_impacts = << >> /\ outlier_count = 0 /\ outlier_pct = 0
  /\ deduplicated_factors = << >> /\ top_factors = << >>
  /\ summary = << >>

ReportedFactors(list) == { list[i].factor : i \in DOMAIN list }

SummaryFactors ==
  ReportedFactors(summary[1].top_factors)
    \cup ReportedFactors(summary[1].all_correlations)
    \cup ReportedFactors(summary[1].all_segment_impacts)

\* C12: in a returned summary neither an excluded column nor the decision
\* metric is a factor of top_factors, all_correlations or
\* all_segment_impacts.
C12_ExcludedNeverFactor ==
  Returned =>
    /\ decision_metric \notin SummaryFactors
    /\ \A i \in DOMAIN Reported : Reported[i].column \notin SummaryFactors

\* An excluded numeric column beside a numeric column that is a factor.
C12_Witness ==
  /\ Returned
  /\ \E i \in DOMAIN Reported :
       InferColumnType(df[PosOf(Reported[i].column)].cells) = "numeric"
  /\ summary[1].all_correlations # << >>

\* The rows in which the target coerces and the cell of column i does too.
PairedRows(i) ==
  { r \in 1..NumRows :
      /\ IsNum(Coerce(TargetCells)[r])
      /\ IsNum(ToNumeric(df[i].cells[r])) }

\* The correlation over the paired rows is a number: neither side is
\* constant.
WellDefined(i) ==
  /\ \E r, q \in PairedRows(i) : Coerce(TargetCells)[r].v # Coerce(TargetCells)[q].v
  /\ \E r, q \in PairedRows(i) : ToNumeric(df[i].cells[r]).v # ToNumeric(df[i].cells[q]).v

SameButTargetless(a, b, metric) ==
  /\ a.file = "csv" /\ b.file = "csv"
  /\ a.pearson = b.pearson
  /\ Len(a.frame) = Len(b.frame)
  /\ \A c \in DOMAIN a.frame :
       /\ a.frame[c].name = b.frame[c].name
       /\ Len(a.frame[c].cells) = Len(b.frame[c].cells)
  /\ \E t \in DOMAIN a.frame :
       /\ a.frame[t].name = metric
       /\ a.frame[t].cells = b.frame[t].cells
       /\ \A c \in DOMAIN a.frame : \A r \in DOMAIN a.frame[c].cells :
            IsNum(Coerce(a.frame[t].cells)[r]) => a.frame[c].cells[r] = b.frame[c].cells[r]

\* C15: two datasets that differ only in factor cells of rows without a
\* valid target give the same excluded_columns, the same column types and
\* the same top_factors, all_correlations and all_segment_impacts.
C15_TargetlessRowsIgnored ==
  \A i, j \in DOMAIN history :
    (/\ history[i].decision_metric = history[j].decision_metric
     /\ history[i].summary # << >> /\ history[j].summary # << >>
     /\ SameButTargetless(history[i].store, history[j].store, history[i].decision_metric))
      => /\ history[i].summary[1].excluded_columns = history[j].summary[1].excluded_columns
         /\ \A c \in DOMAIN history[i].store.frame :
              InferColumnType(history[i].store.frame[c].cells)
                = InferColumnType(history[j].store.frame[c].cells)
         /\ history[i].summary[1].top_factors = history[j].summary[1].top_factors
         /\ history[i].summary[1].all_correlations = history[j].summary[1].all_correlations
         /\ history[i].summary[1].all_segment_impacts
              = history[j].summary[1].all_segment_impacts


\* The target values of the valid rows, from the frame.
ValidValues ==
  LET c == Coerce(TargetCells)
      kept == Select(c, [ r \in DOMAIN c |-> IsNum(c[r]) ])
  IN  [ r \in DOMAIN kept |-> kept[r].v ]

\* The rows of a series strictly outside the IQR bounds (4 * Q1, 4 * Q3 and
\* 8 * each value keep the comparison in whole numbers).
OutlierRowsOf(s) ==
  LET q1 == Quantile4(s, 1)
      q3 == Quantile4(s, 3)
  IN  { r \in DOMAIN s :
          \/ 8 * s[r] < 2 * q1 - 3 * (q3 - q1)
          \/ 8 * s[r] > 2 * q3 + 3 * (q3 - q1) }

\* The count part of C22.
OutlierCountAsClaimed ==
  /\ summary[1].outlier_count = Cardinality(OutlierRowsOf(ValidValues))
  /\ summary[1].outlier_count >= 0
  /\ summary[1].outlier_count <= summary[1].valid_rows

\* C22 as stated: outlier_count is the number of valid target values
\* strictly outside the bounds, each once, between 0 and valid_rows, and
\* outlier_percentage is exactly outlier_count / valid_rows * 100.
C22_OutlierPercentageExact ==
  Returned =>
    /\ OutlierCountAsClaimed
    /\ summary[1].outlier_percentage * summary[1].valid_rows
         = summary[1].outlier_count * 10000

\* C22 amended: the count as stated, and outlier_percentage is
\* outlier_count / valid_rows * 100 rounded to two decimals.
C22_OutlierDiagnostics ==
  Returned =>
    /\ OutlierCountAsClaimed
    /\ summary[1].outlier_percentage
         = RoundDiv(summary[1].outlier_count * 10000, summary[1].valid_rows)
    /\ 2 * Abs(summary[1].outlier_percentage * summary[1].valid_rows
                 - summary[1].outlier_count * 10000) <= summary[1].valid_rows

\* Five values of which the largest equals the upper bound (not counted),
\* and six values with one outlier: 16.67 percent.
C22_Witness ==
  /\ Returned
  /\ \/ /\ SortInts(ValidValues) = << 1, 1, 2, 3, 6 >>
        /\ summary[1].outlier_count = 0
     \/ /\ SortInts(ValidValues) = << 1, 1, 1, 1, 1, 6 >>
        /\ summary[1].outlier_count = 1
        /\ summary[1].outlier_percentage = 1667


\* The row counts of C23.
RowCountsAsClaimed ==
  /\ summary[1].total_rows = NumRows
  /\ summary[1].valid_rows =
       Cardinality({ r \in 1..NumRows : IsNum(Coerce(TargetCells)[r]) })
  /\ summary[1].valid_rows >= 1
  /\ summary[1].valid_rows <= summary[1].total_rows
  /\ summary[1].valid_rows * 10 >= summary[1].total_rows * 9
  /\ summary[1].missing_percentage <= 1000

\* C23 as stated: the row counts, and missing_percentage is exactly
\* (total_rows - valid_rows) / total_rows * 100.
C23_MissingPercentageExact ==
  Returned =>
    /\ RowCountsAsClaimed
    /\ summary[1].missing_percentage * summary[1].total_rows
         = (summary[1].total_rows - summary[1].valid_rows) * 10000

\* C23 amended: valid_rows is the number of rows whose target coerced,
\* 1 <= valid_rows <= total_rows, valid_rows * 10 >= total_rows * 9,
\* missing_percentage is (total_rows - valid_rows) / total_rows * 100
\* rounded to two decimals, and it never exceeds 10.
C23_RowCounts ==
  Returned =>
    /\ RowCountsAsClaimed
    /\ summary[1].missing_percentage =
         RoundDiv((summary[1].total_rows - summary[1].valid_rows) * 10000,
                  summary[1].total_rows)

\* One row of the frame has no target: the percentage is rounded.
C23_Witness ==
  /\ Returned
  /\ summary[1].valid_rows = summary[1].total_rows - 1
  /\ summary[1].missing_percentage * summary[1].total_rows
       # (summary[1].total_rows - summary[1].valid_rows) * 10000


\* The distinct non-null values column i takes in the rows with a valid
\* target: each is a group with a mean.
GroupKeys(i) ==
  { df[i].cells[r] : r \in { q \in 1..NumRows :
      IsNum(Coerce(TargetCells)[q]) /\ df[i].cells[q].k # "na" } }

GroupSum(i, k) ==
  Sum([ r \in 1..NumRows |->
          IF IsNum(Coerce(TargetCells)[r]) /\ df[i].cells[r] = k
            THEN Coerce(TargetCells)[r].v ELSE 0 ])

GroupSize(i, k) ==
  Cardinality({ r \in 1..NumRows : IsNum(Coerce(TargetCells)[r]) /\ df[i].cells[r] = k })

\* max_group_mean - min_group_mean of column i as the fraction num / den.
MeanSpread(i) ==
  LET keys == GroupKeys(i)
      hi == CHOOSE k \in keys : \A j \in keys :
              GroupSum(i, j) * GroupSize(i, k) <= GroupSum(i, k) * GroupSize(i, j)
      lo == CHOOSE k \in keys : \A j \in keys :
              GroupSum(i, k) * GroupSize(i, j) <= GroupSum(i, j) * GroupSize(i, k)
  IN  [ num |-> GroupSum(i, hi) * GroupSize(i, lo) - GroupSum(i, lo) * GroupSize(i, hi),
        den |-> GroupSize(i, hi) * GroupSize(i, lo) ]

\* The categorical impact of column i as a fraction of percent: the spread
\* over the absolute overall mean times 100, or the spread itself when the
\* overall mean is zero.
ClaimedImpact(i) ==
  LET d == MeanSpread(i)
      total == Sum(ValidValues)
  IN  IF total # 0
        THEN [ num |-> d.num * Len(ValidValues) * 100, den |-> d.den * Abs(total) ]
        ELSE [ num |-> d.num, den |-> d.den ]

\* What C25 says of the numeric factors and of the signs.
ImpactSignsAsClaimed ==
  /\ \A e \in Range(summary[1].top_factors) :
       /\ e.impact_score >= 0
       /\ e.type = "numeric" =>
            /\ e.impact_score = Abs(e.correlation)
            /\ e.impact_score <= 10000
       /\ e.type = "categorical" => e.mean_difference >= 0
  /\ \A e \in Range(summary[1].all_segment_impacts) :
       e.mean_difference >= 0 /\ e.relative_impact_pct >= 0

\* C25 as stated: a numeric factor's impact_score is abs(correlation) * 100
\* within [0, 100]; a categorical factor's is exactly the spread of the
\* group means over the absolute overall mean times 100 (the spread itself
\* when the overall mean is zero); no score or mean_difference is
\* negative and the call does not fail.
C25_ImpactScoresExact ==
  /\ pc # "error"
  /\ Returned =>
       /\ ImpactSignsAsClaimed
       /\ \A e \in Range(summary[1].top_factors) :
            e.type = "categorical" =>
              LET c == ClaimedImpact(PosOf(e.factor))
              IN  e.impact_score * c.den = c.num * 100

\* C25 amended: the same, the categorical impact_score being the stated
\* quotient rounded to two decimals.
C25_ImpactScores ==
  /\ pc # "error"
  /\ Returned =>
       /\ ImpactSignsAsClaimed
       /\ \A e \in Range(summary[1].top_factors) :
            e.type = "categorical" =>
              LET c == ClaimedImpact(PosOf(e.factor))
              IN  e.impact_score = RoundDiv(c.num * 100, c.den)

\* A negative overall mean with a categorical impact that is rounded,
\* beside a numeric factor of impact 100.
C25_Witness ==
  /\ Returned
  /\ Sum(ValidValues) < 0
  /\ \E e \in Range(summary[1].top_factors) :
       /\ e.type = "categorical"
       /\ e.impact_score > 0
       /\ e.impact_score * ClaimedImpact(PosOf(e.factor)).den
            # ClaimedImpact(PosOf(e.factor)).num * 100
  /\ \E e \in Range(summary[1].top_factors) :
       e.type = "numeric" /\ e.impact_score = 10000

\* ------------------------------------------------------------------- C26
\* What the rules say of a column, told from its cells alone. ShareOver(set,
\* n, tenths) is "strictly more than tenths/10 of the n values".
ShareOver(set, n, tenths) == n > 0 /\ Cardinality(set) * 10 > tenths * n

CoercedCells(cells) == { i \in DOMAIN cells : ToNumeric(cells[i]).k = "num" }

DateCells(cells) == { i \in DOMAIN cells : cells[i].k = "str" /\ IsDate(cells[i].s) }

SaneDateCells(cells) ==
  { i \in DateCells(cells) : YearOf(cells[i].s) >= 1900 /\ YearOf(cells[i].s) <= 2100 }

\* The date rule as worded: more than 70% of the values are dates with a
\* year in [1900, 2100].
TypeAsClaimed(cells) ==
  IF \A i \in DOMAIN cells : cells[i].k # "str" THEN "numeric"
  ELSE IF ShareOver(CoercedCells(cells), Len(cells), 8) THEN "numeric"
  ELSE IF ShareOver(SaneDateCells(cells), Len(cells), 7) THEN "datetime"
  ELSE "categorical"

\* The date rule as computed: more than 70% of the values are dates, and
\* every one of those dates has its year in [1900, 2100].
TypeAsAmended(cells) ==
  IF \A i \in DOMAIN cells : cells[i].k # "str" THEN "numeric"
  ELSE IF ShareOver(CoercedCells(cells), Len(cells), 8) THEN "numeric"
  ELSE IF /\ ShareOver(DateCells(cells), Len(cells), 7)
          /\ DateCells(cells) = SaneDateCells(cells)
    THEN "datetime"
  ELSE "categorical"

CandidateList == Candidates(correlations, segment_impacts)

NamesOf(list) == { list[i].factor : i \in DOMAIN list }

\* C27: once the factors are ranked, no column is both a numeric and a
\* categorical factor, no two candidates have the same name, and the
\* deduplicated ranking is the sorted candidate list: nothing was removed or
\* replaced.
C27_NoDuplicateFactors ==
  pc \in { "summary", "done" } =>
    /\ NamesOf(correlations) \cap NamesOf(segment_impacts) = {}
    /\ \A i, j \in DOMAIN CandidateList :
         CandidateList[i].factor = CandidateList[j].factor => i = j
    /\ Len(deduplicated_factors) = Len(CandidateList)
    /\ deduplicated_factors = SortFactors(CandidateList)

\* A ranking made of numeric and of categorical factors.
C27_Witness ==
  /\ pc = "done"
  /\ Len(correlations) >= 2
  /\ Len(segment_impacts) >= 2
  /\ Len(deduplicated_factors) = Len(correlations) + Len(segment_impacts)

\* ------------------------------------------------------------------- C28
\* Column i is taken up by the loop of Step 3 (line 174) or of Step 4
\* (line 204).
EvaluatedAsFactor(i) ==
  InferColumnType(df[i].cells) \in { "numeric", "categorical" }

\* C28: in a returned analysis every column but the target is in
\* excluded_columns or was evaluated as a numeric or as a categorical factor;
\* a column typed datetime is not left out of all three.
C28_EveryColumnAccounted ==
  pc = "done" =>
    \A i \in DOMAIN df :
      df[i].name # decision_metric =>
        \/ \E j \in DOMAIN excluded_columns : excluded_columns[j].column = df[i].name
        \/ EvaluatedAsFactor(i)
        \/ df[i].name \in NamesOf(correlations) \cup NamesOf(segment_impacts)

\* ------------------------------------------------------------------- C29
\* C29: a request whose dataset is absent when the analyzer loads it is
\* answered 404, never 500, also when the file went away between the
\* existence check and the load.
C29_AbsentDatasetIs404 ==
  \A i \in DOMAIN history :
    history[i].store.file = "missing" => history[i].response.status = 404

\* ------------------------------------------------------------------- C30
\* The saves made for one dataset and metric, oldest first.
RECURSIVE SavesOf(_, _, _)
SavesOf(log, dataset, metric) ==
  IF Len(log) = 0 THEN << >>
  ELSE IF log[1].dataset_id = dataset /\ log[1].decision_metric = metric
    THEN << log[1] >> \o SavesOf(Tail(log), dataset, metric)
  ELSE SavesOf(Tail(log), dataset, metric)

\* C30: after n saves for one dataset and metric, whatever was saved for
\* other datasets of the workspace, get_all_versions gives 1..n in order
\* and load_insight_snapshot without a version the snapshot saved last.
C30_VersionsPerDataset ==
  \A dataset \in InsightDatasets, metric \in InsightMetrics :
    LET mine == SavesOf(saved, dataset, metric)
        latest == load_insight_snapshot(insight_files, dataset, metric, << >>)
    IN  /\ get_all_versions(insight_files, dataset, metric)
             = [ i \in 1..Len(mine) |-> Decimal(i) ]
        /\ Len(mine) > 0 =>
             /\ Len(latest) = 1
             /\ latest[1].version = mine[Len(mine)].version
             /\ latest[1].backend_stats = mine[Len(mine)].backend_stats

\* ------------------------------------------------------------------- C21
\* What a call hands back: the exception it raised, or its summary.
SameResult(a, b) == a.error = b.error /\ a.summary = b.summary

\* C21: requests for the same metric on the same dataset get the same
\* result and the same answer, whether the call ran alone or was suspended
\* and resumed around steps of another call; the result of a call that has
\* just returned is the one of the answered requests for its metric.
C21_InterleavedAsAlone ==
  /\ \A i, j \in DOMAIN history :
       ( /\ history[i].decision_metric = history[j].decision_metric
         /\ history[i].store = history[j].store )
       => /\ SameResult(history[i], history[j])
          /\ history[i].response = history[j].response
  /\ pc \in { "done", "error" } =>
       \A i \in DOMAIN history :
         ( /\ history[i].decision_metric = decision_metric
           /\ history[i].store = store )
         => SameResult(history[i], Locals)

\* A call for price has returned its summary while a call for cost, started
\* before it returned, is suspended after Step 2; the first request of the
\* behaviour, alone, was for price.
C21_Witness ==
  /\ pc = "done"
  /\ decision_metric = price
  /\ parked.pc = "correlate"
  /\ parked.decision_metric = cost
  /\ parked.excluded_columns # excluded_columns
  /\ Len(history) >= 1
  /\ history[1].decision_metric = price
  /\ history[1].response.status = 200
  /\ history[1].summary = summary

=============================================================================
